---- MODULE Spec2Model ----
(***************************************************************************)
(* A model of the trash engine of trash-tool: the trashing protocol        *)
(* (trash_item), the collision algorithm (find_available_dest_path), the   *)
(* .trashinfo record format, the restore scan and restore_item, over a     *)
(* POSIX-like file system with directories, regular files and symbolic     *)
(* links.                                                                  *)
(*                                                                         *)
(* Strings are sequences of bytes (numbers 0..255); a path is a sequence   *)
(* of components, absolute when its first component is the root "/".       *)
(***************************************************************************)
EXTENDS Naturals, Sequences, FiniteSets, TLC

\* ------------------------------------------------------------------------
\* Bounds of the model
\* ------------------------------------------------------------------------

\* Number of items the environment creates in one behaviour (item ids 1..MaxItems).
MaxItems == 3

\* Number of entries placed in files/ by the inputs of SpecDest.
MaxExisting == 3

\* Length of the mount lists given to get_target_trash.
MaxMounts == 3

\* The longest text over TextAlphabet given to the percent encoding.
MaxTextLen == 4

\* The most lines the input of confirm_input holds.
MaxLines == 3

\* ------------------------------------------------------------------------
\* Constants of the program (src/src/trash/spec.rs, trashing.rs)
\* ------------------------------------------------------------------------

\* "[Trash Info]"
TRASH_INFO_HEADER == <<91, 84, 114, 97, 115, 104, 32, 73, 110, 102, 111, 93>>
\* "Path"
TRASH_INFO_PATH_KEY == <<80, 97, 116, 104>>
\* "DeletionDate"
TRASH_INFO_DATE_KEY == <<68, 101, 108, 101, 116, 105, 111, 110, 68, 97, 116, 101>>
\* "trashinfo"
TRASH_INFO_EXTENSION == <<116, 114, 97, 115, 104, 105, 110, 102, 111>>
\* ".trashinfo"
TRASH_INFO_SUFFIX == <<46, 116, 114, 97, 115, 104, 105, 110, 102, 111>>
\* "files"
TRASH_FILES_DIR_NAME == <<102, 105, 108, 101, 115>>
\* "info"
TRASH_INFO_DIR_NAME == <<105, 110, 102, 111>>

COLLISION_COUNTER_START == 2

\* ------------------------------------------------------------------------
\* Byte strings
\* ------------------------------------------------------------------------

\* format!("{}", n) for an unsigned integer: its decimal digits.
RECURSIVE Digits(_)
Digits(n) ==
    IF n < 10 THEN <<48 + n>> ELSE Digits(n \div 10) \o <<48 + (n % 10)>>

\* str::find(c): the first index (1-based) of byte c in s, 0 when absent.
RECURSIVE FindFrom(_, _, _)
FindFrom(s, c, i) ==
    IF i > Len(s) THEN 0
    ELSE IF s[i] = c THEN i
    ELSE FindFrom(s, c, i + 1)

Find(s, c) == FindFrom(s, c, 1)

\* The last index of byte c in s, 0 when absent.
RECURSIVE RFindFrom(_, _, _)
RFindFrom(s, c, i) ==
    IF i = 0 THEN 0
    ELSE IF s[i] = c THEN i
    ELSE RFindFrom(s, c, i - 1)

RFind(s, c) == RFindFrom(s, c, Len(s))

StartsWithStr(s, prefix) ==
    /\ Len(prefix) <= Len(s)
    /\ SubSeq(s, 1, Len(prefix)) = prefix

EndsWithStr(s, suffix) ==
    /\ Len(suffix) <= Len(s)
    /\ SubSeq(s, Len(s) - Len(suffix) + 1, Len(s)) = suffix

\* str::split(c): the pieces of s between the occurrences of byte c.
RECURSIVE SplitOn(_, _)
SplitOn(s, c) ==
    LET i == Find(s, c)
    IN  IF i = 0 THEN <<s>>
        ELSE <<SubSeq(s, 1, i - 1)>> \o SplitOn(SubSeq(s, i + 1, Len(s)), c)

\* str::lines(): split at "\n", no final empty line, a trailing "\r" of a line dropped.
StripCR(l) ==
    IF Len(l) > 0 /\ l[Len(l)] = 13 THEN SubSeq(l, 1, Len(l) - 1) ELSE l

Lines(s) ==
    LET body == IF Len(s) > 0 /\ s[Len(s)] = 10 THEN SubSeq(s, 1, Len(s) - 1) ELSE s
        parts == SplitOn(body, 10)
    IN  IF s = <<>> THEN <<>> ELSE [i \in 1..Len(parts) |-> StripCR(parts[i])]

\* ------------------------------------------------------------------------
\* Percent encoding of the Path field (src/src/trash/url_escape.rs)
\* ------------------------------------------------------------------------

\* CONTROLS plus space " % # < > { } | \ ^ `
PATH_ENCODE_SET ==
    (0..31) \cup {127} \cup {32, 37, 35, 60, 62, 34, 123, 125, 124, 92, 94, 96}

HexDigit(v) == IF v < 10 THEN 48 + v ELSE 55 + v

IsHex(b) == (b \in 48..57) \/ (b \in 65..70) \/ (b \in 97..102)

HexValue(b) ==
    IF b \in 48..57 THEN b - 48
    ELSE IF b \in 65..70 THEN b - 55
    ELSE b - 87

EncodeByte_keeping_percent(b) ==
    IF b \in (PATH_ENCODE_SET \ {37}) \/ b >= 128
    THEN <<37, HexDigit(b \div 16), HexDigit(b % 16)>>
    ELSE <<b>>

\* One byte as utf8_percent_encode writes it.
EncodeByte(b) ==
    IF b \in PATH_ENCODE_SET \/ b >= 128
    THEN <<37, HexDigit(b \div 16), HexDigit(b % 16)>>
    ELSE <<b>>

RECURSIVE trash_spec_url_encode(_)
trash_spec_url_encode(path) ==
    IF path = <<>> THEN <<>>
    ELSE EncodeByte(Head(path)) \o trash_spec_url_encode(Tail(path))

\* percent_decode_str: "%XY" with two hex digits is one byte, anything else is literal.
RECURSIVE PercentDecode(_)
PercentDecode(s) ==
    IF s = <<>> THEN <<>>
    ELSE IF s[1] = 37 /\ Len(s) >= 3 /\ IsHex(s[2]) /\ IsHex(s[3])
         THEN <<16 * HexValue(s[2]) + HexValue(s[3])>>
              \o PercentDecode(SubSeq(s, 4, Len(s)))
         ELSE <<s[1]>> \o PercentDecode(Tail(s))

IsCont(s, i) == i <= Len(s) /\ s[i] \in 128..191

\* decode_utf8: whether the bytes from index i on are well-formed UTF-8.
RECURSIVE Utf8ValidFrom(_, _)
Utf8ValidFrom(s, i) ==
    IF i > Len(s) THEN TRUE
    ELSE LET b == s[i]
         IN  IF b < 128 THEN Utf8ValidFrom(s, i + 1)
             ELSE IF b \in 194..223
                  THEN IsCont(s, i + 1) /\ Utf8ValidFrom(s, i + 2)
             ELSE IF b \in 224..239
                  THEN /\ IsCont(s, i + 1) /\ IsCont(s, i + 2)
                       /\ (b = 224 => s[i + 1] >= 160)
                       /\ (b = 237 => s[i + 1] <= 159)
                       /\ Utf8ValidFrom(s, i + 3)
             ELSE IF b \in 240..244
                  THEN /\ IsCont(s, i + 1) /\ IsCont(s, i + 2) /\ IsCont(s, i + 3)
                       /\ (b = 240 => s[i + 1] >= 144)
                       /\ (b = 244 => s[i + 1] <= 143)
                       /\ Utf8ValidFrom(s, i + 4)
             ELSE FALSE

\* Result<String, Utf8Error>
trash_spec_url_decode(encoded_path) ==
    LET bytes == PercentDecode(encoded_path)
    IN  IF Utf8ValidFrom(bytes, 1)
        THEN [ok |-> TRUE, value |-> bytes]
        ELSE [ok |-> FALSE, value |-> <<>>]

\* Whether the byte after the lead byte b at index i is one that may follow it.
SecondByteFits(s, i) ==
    LET b == s[i]
    IN  /\ IsCont(s, i + 1)
        /\ (b = 224 => s[i + 1] >= 160)
        /\ (b = 237 => s[i + 1] <= 159)
        /\ (b = 240 => s[i + 1] >= 144)
        /\ (b = 244 => s[i + 1] <= 143)

\* The length of the well-formed character that starts at index i; 0 when
\* none does.
Utf8CharLen(s, i) ==
    LET b == s[i]
    IN  IF b < 128 THEN 1
        ELSE IF b \in 194..223 /\ IsCont(s, i + 1) THEN 2
        ELSE IF b \in 224..239 /\ SecondByteFits(s, i) /\ IsCont(s, i + 2) THEN 3
        ELSE IF b \in 240..244 /\ SecondByteFits(s, i) /\ IsCont(s, i + 2)
                /\ IsCont(s, i + 3) THEN 4
        ELSE 0

\* The length of the ill-formed run that starts at index i (the longest
\* prefix of a character that is there).
Utf8InvalidLen(s, i) ==
    LET b == s[i]
    IN  IF b \in 224..244 /\ SecondByteFits(s, i)
        THEN IF b \in 240..244 /\ IsCont(s, i + 2) THEN 3 ELSE 2
        ELSE 1

\* OsStr::to_string_lossy from index i on: well-formed characters are kept,
\* every ill-formed run becomes U+FFFD (EF BF BD).
RECURSIVE to_string_lossy(_, _)
to_string_lossy(s, i) ==
    IF i > Len(s) THEN <<>>
    ELSE LET n == Utf8CharLen(s, i)
         IN  IF n > 0 THEN SubSeq(s, i, i + n - 1) \o to_string_lossy(s, i + n)
             ELSE <<239, 191, 189>> \o to_string_lossy(s, i + Utf8InvalidLen(s, i))

\* ------------------------------------------------------------------------
\* Paths (std::path::Path)
\* ------------------------------------------------------------------------

\* The component RootDir, "/".
RootDir == <<47>>

IsAbsolute(p) == Len(p) > 0 /\ p[1] = RootDir

\* Path::join for a relative second path of one or more components.
Join(base, rel) == base \o rel

\* Path::starts_with: component-wise prefix.
PathStartsWith(p, base) ==
    /\ Len(base) <= Len(p)
    /\ SubSeq(p, 1, Len(base)) = base

\* Path::parent
Parent(p) == SubSeq(p, 1, Len(p) - 1)

HasFileName(p) == Len(p) > 0 /\ p[Len(p)] # RootDir

\* Path::file_name
FileName(p) == p[Len(p)]

\* The bytes of the path: components joined by "/" (Path::as_os_str).
RECURSIVE JoinComponents(_)
JoinComponents(cs) ==
    IF cs = <<>> THEN <<>>
    ELSE IF Len(cs) = 1 THEN cs[1]
    ELSE cs[1] \o <<47>> \o JoinComponents(Tail(cs))

PathToString(p) ==
    IF IsAbsolute(p) THEN <<47>> \o JoinComponents(Tail(p)) ELSE JoinComponents(p)

\* PathBuf::from(text): the components of the text (empty pieces are dropped).
NonEmptyPieces(parts) == SelectSeq(parts, LAMBDA c : c # <<>>)

PathFromString(s) ==
    IF Len(s) > 0 /\ s[1] = 47
    THEN <<RootDir>> \o NonEmptyPieces(SplitOn(s, 47))
    ELSE NonEmptyPieces(SplitOn(s, 47))

\* The path the operating system resolves p to, for a process whose working
\* directory is cwd.
Absolute(cwd, p) == IF IsAbsolute(p) THEN p ELSE cwd \o p

\* ------------------------------------------------------------------------
\* The file system
\* ------------------------------------------------------------------------
\* A file system is a function from the absolute paths that are present to
\* their nodes.  A node has a kind ("file", "dir", "symlink"), the identity
\* of the item it is (id, 0 for what the program itself creates), the target
\* of a symbolic link, the content of a regular file and the permission bits
\* (mode).

\* The modes of what is created under the usual umask 022: 0o644, 0o755, and
\* 0o777 for a symbolic link.
FileMode == 420

DirMode == 493

SymlinkMode == 511

FileNode(id, content) ==
    [kind |-> "file", id |-> id, target |-> <<>>, content |-> content, mode |-> FileMode]

DirNode(id) ==
    [kind |-> "dir", id |-> id, target |-> <<>>, content |-> <<>>, mode |-> DirMode]

SymlinkNode(id, target) ==
    [kind |-> "symlink", id |-> id, target |-> target, content |-> <<>>, mode |-> SymlinkMode]

\* A directory with the given permission bits.
DirNodeMode(id, mode) == [DirNode(id) EXCEPT !.mode = mode]

\* The node the path leads to once the symbolic links at its end are followed;
\* <<>> when the path is absent, the chain dangles or it loops. A target
\* that does not start at the root is relative to the directory of the link.
RECURSIVE FollowLinks(_, _, _)
FollowLinks(f, p, fuel) ==
    IF p \notin DOMAIN f THEN <<>>
    ELSE IF f[p].kind # "symlink" THEN p
    ELSE IF fuel = 0 THEN <<>>
    ELSE IF f[p].target # <<>> /\ Head(f[p].target) # RootDir
    THEN FollowLinks(f, Join(Parent(p), f[p].target), fuel - 1)
    ELSE FollowLinks(f, f[p].target, fuel - 1)

\* fs::canonicalize, fs::metadata: symbolic links are followed.
Canonicalize(f, p) == FollowLinks(f, p, Cardinality(DOMAIN f))

\* Path::exists: false for a broken symbolic link.
PathExists(f, p) == Canonicalize(f, p) # <<>>

\* Path::is_dir
PathIsDir(f, p) == PathExists(f, p) /\ f[Canonicalize(f, p)].kind = "dir"

\* Path::is_symlink
PathIsSymlink(f, p) == p \in DOMAIN f /\ f[p].kind = "symlink"

\* mode & 0o1000 != 0
StickyBit == 512

HasStickyBit(mode) == (mode \div StickyBit) % 2 = 1

\* The path and everything below it.
Subtree(f, p) == {q \in DOMAIN f : PathStartsWith(q, p)}

HasChildren(f, p) == Subtree(f, p) # {p}

\* rename(2): the error it ends with, "" when it succeeds.
RenameError(f, src, dst) ==
    IF src \notin DOMAIN f THEN "ENOENT"
    ELSE IF ~(Parent(dst) \in DOMAIN f /\ f[Parent(dst)].kind = "dir") THEN "ENOENT"
    ELSE IF src = dst THEN ""
    ELSE IF f[src].kind = "dir" /\ PathStartsWith(dst, src) THEN "EINVAL"
    ELSE IF dst \notin DOMAIN f THEN ""
    ELSE IF f[src].kind = "dir"
         THEN IF f[dst].kind # "dir" THEN "ENOTDIR"
              ELSE IF HasChildren(f, dst) THEN "ENOTEMPTY"
              ELSE ""
    ELSE IF f[dst].kind = "dir" THEN "EISDIR"
    ELSE ""

\* rename(2) when it succeeds: src and all below it now live at dst; what dst
\* named before (a file, a symbolic link, an empty directory) is replaced.
RenameApply(f, src, dst) ==
    LET moved == Subtree(f, src)
        kept == DOMAIN f \ (moved \cup {dst})
        NewPath(q) == dst \o SubSeq(q, Len(src) + 1, Len(q))
        OldPath(q) == src \o SubSeq(q, Len(dst) + 1, Len(q))
    IN  IF src = dst THEN f
        ELSE [q \in kept \cup {NewPath(m) : m \in moved} |->
                 IF q \in kept THEN f[q] ELSE f[OldPath(q)]]

\* fs::remove_file (unlink): the error, "" when it succeeds.
RemoveFileError(f, p) ==
    IF p \notin DOMAIN f THEN "ENOENT"
    ELSE IF f[p].kind = "dir" THEN "EISDIR"
    ELSE ""

RemoveFileApply(f, p) == [q \in DOMAIN f \ {p} |-> f[q]]

\* fs::write (create or truncate, then write all): the error, "" when it succeeds.
WriteError(f, p) ==
    IF ~(Parent(p) \in DOMAIN f /\ f[Parent(p)].kind = "dir") THEN "ENOENT"
    ELSE IF p \in DOMAIN f /\ f[p].kind # "file" THEN "EISDIR"
    ELSE ""

\* An existing regular file keeps its identity and gets the new content.
WriteApply(f, p, content) ==
    LET id == IF p \in DOMAIN f THEN f[p].id ELSE 0
    IN  [q \in DOMAIN f \cup {p} |-> IF q = p THEN FileNode(id, content) ELSE f[q]]

\* fs::create_dir_all: creates the missing directories of the path; fails when
\* an existing component is not a directory.
RECURSIVE CreateDirAll(_, _)
CreateDirAll(f, p) ==
    IF p = <<>> \/ PathIsDir(f, p) THEN [ok |-> TRUE, fs |-> f]
    ELSE IF p \in DOMAIN f \/ Len(p) = 1 THEN [ok |-> FALSE, fs |-> f]
    ELSE LET r == CreateDirAll(f, Parent(p))
         IN  IF ~r.ok THEN r
             ELSE [ok |-> TRUE,
                   fs |-> [q \in DOMAIN r.fs \cup {p} |->
                              IF q = p THEN DirNode(0) ELSE r.fs[q]]]

\* ------------------------------------------------------------------------
\* The trash location (src/src/trash/locations.rs)
\* ------------------------------------------------------------------------

TargetTrash(root_path, trash_type) ==
    [root_path |-> root_path, trash_type |-> trash_type]

files_path(t) == Join(t.root_path, <<TRASH_FILES_DIR_NAME>>)

info_path(t) == Join(t.root_path, <<TRASH_INFO_DIR_NAME>>)

\* fs::create_dir: the parent must be a directory and the path must not exist.
CreateDir(f, p) ==
    IF p \in DOMAIN f \/ ~PathIsDir(f, Parent(p)) THEN [ok |-> FALSE, fs |-> f]
    ELSE [ok |-> TRUE, fs |-> [q \in DOMAIN f \cup {p} |-> IF q = p THEN DirNode(0) ELSE f[q]]]

\* What the system answers to the calls that create a directory and to the
\* calls that set permission bits, whatever the file system holds:
\* create is "ok", "denied" (PermissionDenied) or "fails" (another error);
\* chmod is "ok", "denied_0700" (PermissionDenied for mode 0700 only),
\* "denied" (PermissionDenied for every mode) or "fails" (another error).
\* fs::set_permissions(path, Permissions::from_mode(mode)): chmod follows
\* symbolic links. err is "", "denied" or "fails".
SetPermissions(f, p, mode, env) ==
    IF ~PathExists(f, p) \/ env.chmod = "fails" THEN [err |-> "fails", fs |-> f]
    ELSE IF env.chmod = "denied" \/ (env.chmod = "denied_0700" /\ mode = 448)
    THEN [err |-> "denied", fs |-> f]
    ELSE [err |-> "",
          fs |-> [f EXCEPT ![Canonicalize(f, p)].mode = mode]]

\* The outcome of a call that returns Result<(), AppError> and the file
\* system it leaves.
Done(kind, path, f) == [kind |-> kind, path |-> path, fs |-> f]

\* TargetTrash::create_with_mode
create_with_mode(f, t, mode, all, env) ==
    LET made == IF PathExists(f, t.root_path) THEN [ok |-> TRUE, fs |-> f]
                ELSE IF env.create # "ok" THEN [ok |-> FALSE, fs |-> f]
                ELSE IF all THEN CreateDirAll(f, t.root_path)
                ELSE CreateDir(f, t.root_path)
        set == SetPermissions(made.fs, t.root_path, mode, env)
    IN  IF ~made.ok THEN Done("Io", t.root_path, f)
        ELSE IF set.err # "" THEN Done("Io", t.root_path, made.fs)
        ELSE Done("Ok", <<>>, set.fs)

\* TargetTrash::create_with_fallback
create_with_fallback(f, t, primary_mode, fallback_mode, env) ==
    LET attempt == IF PathExists(f, t.root_path) THEN [ok |-> TRUE, fs |-> f]
                   ELSE IF env.create = "ok" THEN CreateDirAll(f, t.root_path)
                   ELSE [ok |-> env.create = "denied", fs |-> f]
        primary == SetPermissions(attempt.fs, t.root_path, primary_mode, env)
        fallback == SetPermissions(attempt.fs, t.root_path, fallback_mode, env)
    IN  IF ~attempt.ok THEN Done("Io", t.root_path, f)
        ELSE IF primary.err = "" THEN Done("Ok", <<>>, primary.fs)
        ELSE IF primary.err = "denied"
        THEN IF fallback.err = "" THEN Done("Ok", <<>>, fallback.fs)
             ELSE Done("Io", t.root_path, attempt.fs)
        ELSE Done("Io", t.root_path, attempt.fs)

\* TargetTrash::create_root_dir
create_root_dir(f, t, env) ==
    IF t.trash_type = "Home" THEN create_with_mode(f, t, 448, TRUE, env)
    ELSE IF t.trash_type = "TopdirShared" THEN create_with_mode(f, t, 1023, TRUE, env)
    ELSE create_with_fallback(f, t, 448, 1023, env)

\* if !path.exists() { fs::create_dir(&path)?; }
CreateDirIfMissing(f, path, env) ==
    IF PathExists(f, path) THEN Done("Ok", <<>>, f)
    ELSE IF env.create # "ok" \/ ~CreateDir(f, path).ok THEN Done("GenericIo", <<>>, f)
    ELSE Done("Ok", <<>>, CreateDir(f, path).fs)

\* TargetTrash::ensure_structure_exists
ensure_structure_exists(f, t, env) ==
    LET root == create_root_dir(f, t, env)
        files == CreateDirIfMissing(root.fs, files_path(t), env)
        info == CreateDirIfMissing(files.fs, info_path(t), env)
    IN  IF root.kind # "Ok" THEN root
        ELSE IF files.kind # "Ok" THEN files
        ELSE info

\* users::get_current_uid()
Uid == 1000

\* ".Trash"
SharedTrashName == <<46, 84, 114, 97, 115, 104>>

\* format!(".Trash-{}", uid)
PrivateTrashName == SharedTrashName \o <<45>> \o Digits(Uid)

\* m.as_os_str().len()
OsLen(m) == Len(PathToString(m))

\* The first mount point of the list that is a prefix of the path.
MountPointOf_first(path, mounts) ==
    LET hits == {i \in 1..Len(mounts) : PathStartsWith(path, mounts[i])}
    IN  IF hits = {} THEN [some |-> FALSE, value |-> <<>>]
        ELSE [some |-> TRUE, value |-> mounts[CHOOSE i \in hits : \A j \in hits : i <= j]]

\* mounts.iter().filter(|m| path.starts_with(m)).max_by_key(|m| len): the
\* longest mount point that is a prefix of the path, the last of them when
\* several have that length; Option<&PathBuf>.
MountPointOf(path, mounts) ==
    LET hits == {i \in 1..Len(mounts) : PathStartsWith(path, mounts[i])}
    IN  IF hits = {} THEN [some |-> FALSE, value |-> <<>>]
        ELSE [some |-> TRUE,
              value |-> mounts[CHOOSE i \in hits : \A j \in hits :
                                   \/ OsLen(mounts[j]) < OsLen(mounts[i])
                                   \/ OsLen(mounts[j]) = OsLen(mounts[i]) /\ j <= i]]

\* A resolver without the home branch.
SameMountAsHome_never(file_mount_point, home_mount_point) == FALSE

\* The test of the home branch without is_some(): two undetermined mount
\* points compare equal.
SameMountAsHome_without_is_some(file_mount_point, home_mount_point) ==
    file_mount_point = home_mount_point

\* The test of the home branch: file_mount_point.is_some() &&
\* file_mount_point == home_mount_point.
SameMountAsHome(file_mount_point, home_mount_point) ==
    file_mount_point.some /\ file_mount_point = home_mount_point

\* A resolver that does not look at what the home trash root is.
HomeTrashIsSymlink_unchecked(f, home_trash_path) == FALSE

\* The symbolic link test on the home trash root.
HomeTrashIsSymlink(f, home_trash_path) == PathIsSymlink(f, home_trash_path)

\* A validation with metadata() in place of symlink_metadata(): a symbolic
\* link to a sticky directory is accepted.
is_valid_shared_trash_following_links(f, shared_trash_base) ==
    /\ PathIsDir(f, shared_trash_base)
    /\ HasStickyBit(f[Canonicalize(f, shared_trash_base)].mode)

\* symlink_metadata().map(|m| !m.is_symlink() && m.is_dir() && sticky)
\* .unwrap_or(false)
is_valid_shared_trash(f, shared_trash_base) ==
    /\ shared_trash_base \in DOMAIN f
    /\ f[shared_trash_base].kind # "symlink"
    /\ f[shared_trash_base].kind = "dir"
    /\ HasStickyBit(f[shared_trash_base].mode)

NoTargetTrash == TargetTrash(<<>>, "none")

\* Result<TargetTrash, AppError>
TrashOk(trash) == [kind |-> "Ok", path |-> trash.root_path, trash |-> trash]

TrashErr(kind, path) == [kind |-> kind, path |-> path, trash |-> NoTargetTrash]

\* get_target_trash(path_to_trash, mounts), the home trash being at
\* home_trash_path and the relative paths being resolved from cwd.
get_target_trash(f, cwd, path_to_trash, mounts, home_trash_path) ==
    LET absolute_path == Canonicalize(f, Absolute(cwd, path_to_trash))
        file_mount_point == MountPointOf(absolute_path, mounts)
        home_mount_point == MountPointOf(home_trash_path, mounts)
        shared_trash_base == Join(file_mount_point.value, <<SharedTrashName>>)
    IN  IF absolute_path = <<>> THEN TrashErr("GenericIo", <<>>)
        ELSE IF SameMountAsHome(file_mount_point, home_mount_point)
        THEN IF HomeTrashIsSymlink(f, home_trash_path)
             THEN TrashErr("SymbolicLink", home_trash_path)
             ELSE TrashOk(TargetTrash(home_trash_path, "Home"))
        ELSE IF file_mount_point.some
        THEN IF is_valid_shared_trash(f, shared_trash_base)
             THEN TrashOk(TargetTrash(Join(shared_trash_base, <<Digits(Uid)>>),
                                      "TopdirSharedUser"))
             ELSE TrashOk(TargetTrash(Join(file_mount_point.value, <<PrivateTrashName>>),
                                      "TopdirPrivate"))
        ELSE TrashErr("Message", path_to_trash)

\* str::split_whitespace(): the non-empty pieces between spaces and tabs.
SplitWhitespace(line) ==
    NonEmptyPieces(SplitOn([i \in 1..Len(line) |-> IF line[i] = 9 THEN 32 ELSE line[i]], 32))

\* line.split_whitespace().nth(1).map(PathBuf::from): the mount point of a
\* line of the mount table, Option<PathBuf>.
MountPointOfLine(line) ==
    LET fields == SplitWhitespace(line)
    IN  IF Len(fields) < 2 THEN [some |-> FALSE, value |-> <<>>]
        ELSE [some |-> TRUE, value |-> PathFromString(fields[2])]

\* The closure of filter_map for one mount point: the trash directory of the
\* user on it, Option<PathBuf>.
TrashDirOnMount(f, uid, mount_point) ==
    LET shared_trash_base == Join(mount_point, <<SharedTrashName>>)
        user_shared_trash == Join(shared_trash_base, <<Digits(uid)>>)
        private_trash == Join(mount_point, <<SharedTrashName \o <<45>> \o Digits(uid)>>)
    IN  IF /\ PathIsDir(f, shared_trash_base)
           /\ HasStickyBit(f[Canonicalize(f, shared_trash_base)].mode)
           /\ PathIsDir(f, user_shared_trash)
        THEN <<user_shared_trash>>
        ELSE IF PathIsDir(f, private_trash) THEN <<private_trash>>
        ELSE <<>>

\* find_trash_dirs_on_mounts, the lines of the mount table being given (an
\* empty list when the table cannot be opened).
RECURSIVE find_trash_dirs_on_mounts(_, _, _)
find_trash_dirs_on_mounts(f, uid, lines) ==
    IF lines = <<>> THEN <<>>
    ELSE LET mount_point == MountPointOfLine(Head(lines))
         IN  (IF mount_point.some THEN TrashDirOnMount(f, uid, mount_point.value) ELSE <<>>)
             \o find_trash_dirs_on_mounts(f, uid, Tail(lines))

\* find_all_trash_dirs: the home trash when it is a directory, then the
\* trash directories of the mounts; get_local_trash_path() having returned
\* home_trash_path.
find_all_trash_dirs(f, lines, home_trash_path) ==
    (IF PathIsDir(f, home_trash_path) THEN <<home_trash_path>> ELSE <<>>)
    \o find_trash_dirs_on_mounts(f, Uid, lines)

\* ------------------------------------------------------------------------
\* The collision algorithm (src/src/trash/trashing.rs)
\* ------------------------------------------------------------------------

\* A split at the first dot wherever it is, the first byte included.
SplitAtFirstDot_at_leading_dot(filename_str) ==
    LET dot == Find(filename_str, 46)
    IN  IF dot > 0
        THEN [base_name |-> SubSeq(filename_str, 1, dot - 1),
              extension_part |-> SubSeq(filename_str, dot, Len(filename_str))]
        ELSE [base_name |-> filename_str, extension_part |-> <<>>]

\* The split of the name at its first dot, when that dot is not the first byte.
SplitAtFirstDot(filename_str) ==
    LET dot == Find(filename_str, 46)
    IN  IF dot > 1
        THEN [base_name |-> SubSeq(filename_str, 1, dot - 1),
              extension_part |-> SubSeq(filename_str, dot, Len(filename_str))]
        ELSE [base_name |-> filename_str, extension_part |-> <<>>]

\* The candidate name tried for a counter value.
NewFilename(filename_str, counter) ==
    LET s == SplitAtFirstDot(filename_str)
    IN  IF s.base_name = <<>> /\ s.extension_part # <<>>
        THEN filename_str \o Digits(counter)
        ELSE s.base_name \o <<46>> \o Digits(counter) \o s.extension_part

\* The loop: the body runs while dest_path.exists().
RECURSIVE DestLoop(_, _, _, _, _)
DestLoop(f, trash_files_path, file_name, dest_path, counter) ==
    IF ~PathExists(f, dest_path) THEN dest_path
    ELSE DestLoop(f, trash_files_path, file_name,
                  Join(trash_files_path, <<NewFilename(file_name, counter)>>),
                  counter + 1)

\* Result<PathBuf, AppError>; the paths are absolute.
find_available_dest_path(f, source_path, trash_files_path) ==
    IF ~HasFileName(source_path)
    THEN [ok |-> FALSE, path |-> <<>>]
    ELSE [ok |-> TRUE,
          path |-> DestLoop(f, trash_files_path, FileName(source_path),
                            Join(trash_files_path, <<FileName(source_path)>>),
                            COLLISION_COUNTER_START)]

\* ------------------------------------------------------------------------
\* The .trashinfo record (src/src/trash/trashing.rs, restoring.rs)
\* ------------------------------------------------------------------------

build_trash_info_content(original_abs_path, deletion_date) ==
    TRASH_INFO_HEADER \o <<10>>
    \o TRASH_INFO_PATH_KEY \o <<61>>
    \o trash_spec_url_encode(to_string_lossy(PathToString(original_abs_path), 1))
    \o <<10>>
    \o TRASH_INFO_DATE_KEY \o <<61>> \o deletion_date \o <<10>>

determine_info_file_path(dest_path, trash_info_path) ==
    Join(trash_info_path, <<FileName(dest_path) \o TRASH_INFO_SUFFIX>>)

\* The regular expression ^<key>=(.*)$ on one line: Option<String>.
get_capture(key, line) ==
    IF StartsWithStr(line, key \o <<61>>) /\ Find(line, 10) = 0
    THEN [some |-> TRUE, value |-> SubSeq(line, Len(key) + 2, Len(line))]
    ELSE [some |-> FALSE, value |-> <<>>]

FirstCapture_or_empty(key, lines) ==
    LET hits == {i \in 1..Len(lines) : get_capture(key, lines[i]).some}
    IN  IF hits = {} THEN [some |-> TRUE, value |-> <<>>]
        ELSE get_capture(key, lines[CHOOSE i \in hits : \A j \in hits : i <= j])

\* The first line the key's expression matches.
FirstCapture(key, lines) ==
    LET hits == {i \in 1..Len(lines) : get_capture(key, lines[i]).some}
    IN  IF hits = {} THEN [some |-> FALSE, value |-> <<>>]
        ELSE get_capture(key, lines[CHOOSE i \in hits : \A j \in hits : i <= j])

\* Path::extension: the part of the file name after its last dot; none when
\* there is no dot or the only dot is the first byte.
Extension(name) ==
    LET dot == RFind(name, 46)
    IN  IF dot <= 1 THEN [some |-> FALSE, value |-> <<>>]
        ELSE [some |-> TRUE, value |-> SubSeq(name, dot + 1, Len(name))]

\* str::strip_suffix(..).unwrap_or(name)
StripSuffix(name, suffix) ==
    IF EndsWithStr(name, suffix) THEN SubSeq(name, 1, Len(name) - Len(suffix)) ELSE name

\* ------------------------------------------------------------------------
\* The restore scan (src/src/trash/restoring.rs)
\* ------------------------------------------------------------------------

TrashEntry(trashed_path, info_file, original_path, deletion_date) ==
    [trashed_path |-> trashed_path, info_path |-> info_file,
     original_path |-> original_path, deletion_date |-> deletion_date]

\* The entries of a directory, in the order read_dir yields them (one order
\* is chosen: the scan's result does not depend on it beyond the order of the
\* returned list).
RECURSIVE SetToSeq(_)
SetToSeq(S) ==
    IF S = {} THEN <<>>
    ELSE LET x == CHOOSE y \in S : TRUE IN <<x>> \o SetToSeq(S \ {x})

ReadDir(f, dir) == SetToSeq({q \in DOMAIN f : Len(q) > 1 /\ Parent(q) = dir})

\* fs::read_to_string: fails on a directory, a missing file or bytes that are
\* not UTF-8.
ReadToString(f, p) ==
    LET c == Canonicalize(f, p)
    IN  IF c = <<>> \/ f[c].kind # "file" \/ ~Utf8ValidFrom(f[c].content, 1)
        THEN [ok |-> FALSE, value |-> <<>>]
        ELSE [ok |-> TRUE, value |-> f[c].content]

HasTrashInfoExtension(info_file) ==
    LET e == Extension(FileName(info_file))
    IN  e.some /\ e.value = TRASH_INFO_EXTENSION

\* The body of the loop over the entries of info/ for one entry: the list of
\* the (zero or one) TrashEntry it pushes.
EntryOfInfoFile(f, trash_dir, info_file) ==
    LET lines == Lines(ReadToString(f, info_file).value)
        original_path_str == FirstCapture(TRASH_INFO_PATH_KEY, lines)
        deletion_date == FirstCapture(TRASH_INFO_DATE_KEY, lines)
        decoded == trash_spec_url_decode(original_path_str.value)
        base_filename == StripSuffix(FileName(info_file), TRASH_INFO_SUFFIX)
        trashed_path == Join(Join(trash_dir, <<TRASH_FILES_DIR_NAME>>), <<base_filename>>)
    IN  IF ~HasTrashInfoExtension(info_file) THEN <<>>
        ELSE IF ~(original_path_str.some /\ deletion_date.some) THEN <<>>
        ELSE IF ~decoded.ok THEN <<>>
        ELSE <<TrashEntry(trashed_path, info_file,
                          PathFromString(decoded.value), deletion_date.value)>>

RECURSIVE EntriesOfInfoFiles(_, _, _)
EntriesOfInfoFiles(f, trash_dir, info_files) ==
    IF info_files = <<>> THEN <<>>
    ELSE EntryOfInfoFile(f, trash_dir, Head(info_files))
         \o EntriesOfInfoFiles(f, trash_dir, Tail(info_files))

\* Whether the scan of one trash directory ends in an error (the `?` on
\* read_to_string of a record).
ScanDirFails(f, trash_dir) ==
    LET info_dir == Join(trash_dir, <<TRASH_INFO_DIR_NAME>>)
    IN  /\ PathIsDir(f, info_dir)
        /\ \E q \in DOMAIN f :
              /\ Len(q) > 1 /\ Parent(q) = info_dir
              /\ HasTrashInfoExtension(q)
              /\ ~ReadToString(f, q).ok

EntriesOfDir(f, trash_dir) ==
    LET info_dir == Join(trash_dir, <<TRASH_INFO_DIR_NAME>>)
    IN  IF ~PathIsDir(f, info_dir) THEN <<>>
        ELSE EntriesOfInfoFiles(f, trash_dir, ReadDir(f, info_dir))

RECURSIVE EntriesOfDirs(_, _)
EntriesOfDirs(f, trash_dirs) ==
    IF trash_dirs = <<>> THEN <<>>
    ELSE EntriesOfDir(f, Head(trash_dirs)) \o EntriesOfDirs(f, Tail(trash_dirs))

\* Result<Vec<TrashEntry>, AppError>
find_trash_entries_in_dirs(f, trash_dirs) ==
    IF \E i \in 1..Len(trash_dirs) : ScanDirFails(f, trash_dirs[i])
    THEN [ok |-> FALSE, entries |-> <<>>]
    ELSE [ok |-> TRUE, entries |-> EntriesOfDirs(f, trash_dirs)]

\* ------------------------------------------------------------------------
\* Emptying (src/src/trash/emptying.rs)
\* ------------------------------------------------------------------------

RemoveDirAll_top_only(f, p) == [q \in DOMAIN f \ {p} |-> f[q]]

\* fs::remove_dir_all when it succeeds: the path and everything below it are
\* gone; of a symbolic link only the link is removed.
RemoveDirAll(f, p) == [q \in DOMAIN f \ Subtree(f, p) |-> f[q]]

\* Whether the system refuses to remove the tree at dir: env says whether
\* the directory that holds dir can be written to (an entry added to it or
\* removed from it) and, by name, below which of its directories there is
\* something that cannot be removed.
RemoveRefused(f, dir, env) ==
    ~env.root_writable \/ (HasChildren(f, dir) /\ FileName(dir) \in env.unremovable)

\* fs::remove_dir_all when it fails: it removes what lies below the path
\* first and the path last, so with removable content under a directory
\* that cannot be written to, the content is gone and the path is left; a
\* removal refused below the path is taken to have removed nothing.
RemoveDirAllRefused(f, p, env) ==
    IF FileName(p) \in env.unremovable THEN f
    ELSE [q \in DOMAIN f \ (Subtree(f, p) \ {p}) |-> f[q]]

\* The body of the loop of empty_single_trash_dir for one directory.
EmptyOneDir(f, dir, env) ==
    LET removed == IF PathIsDir(f, dir) THEN RemoveDirAll(f, dir) ELSE f
        created == CreateDirAll(removed, dir)
    IN  IF PathIsDir(f, dir) /\ RemoveRefused(f, dir, env)
        THEN Done("Io", dir, RemoveDirAllRefused(f, dir, env))
        ELSE IF ~created.ok \/ (~PathIsDir(removed, dir) /\ ~env.root_writable)
        THEN Done("Io", dir, removed)
        ELSE Done("Ok", <<>>, created.fs)

\* empty_single_trash_dir
empty_single_trash_dir(f, trash_root, env) ==
    LET files == EmptyOneDir(f, Join(trash_root, <<TRASH_FILES_DIR_NAME>>), env)
        info == EmptyOneDir(files.fs, Join(trash_root, <<TRASH_INFO_DIR_NAME>>), env)
    IN  IF files.kind # "Ok" THEN files ELSE info

\* char::is_whitespace for the bytes of ASCII: tab, LF, VT, FF, CR, space.
IsWhitespace(b) == b \in {9, 10, 11, 12, 13, 32}

\* str::trim
RECURSIVE Trim(_)
Trim(t) ==
    IF t = <<>> THEN t
    ELSE IF IsWhitespace(t[1]) THEN Trim(Tail(t))
    ELSE IF IsWhitespace(t[Len(t)]) THEN Trim(SubSeq(t, 1, Len(t) - 1))
    ELSE t

to_lowercase_unchanged(t) == t

\* str::to_lowercase for the letters of ASCII.
to_lowercase(t) == [i \in 1..Len(t) |-> IF t[i] \in 65..90 THEN t[i] + 32 ELSE t[i]]

\* reader.read_line(&mut input): the next line of the input with its line
\* feed, the empty text at the end of the input; an error when the line is
\* not UTF-8.
read_line(input, pos) ==
    IF pos > Len(input) THEN [ok |-> TRUE, line |-> <<>>]
    ELSE IF ~Utf8ValidFrom(input[pos], 1) THEN [ok |-> FALSE, line |-> <<>>]
    ELSE [ok |-> TRUE, line |-> input[pos]]

\* The answer of one turn of the loop of confirm_input to the line read:
\* "yes" (return Ok(true)), "no" (return Ok(false)), "again" (the loop goes on).
ConfirmAnswer(line) ==
    LET trimmed_input == to_lowercase(Trim(line))
    IN  IF trimmed_input = <<>> \/ trimmed_input = <<121>> \/ trimmed_input = <<121, 101, 115>>
        THEN "yes"
        ELSE IF trimmed_input = <<110>> \/ trimmed_input = <<110, 111>> THEN "no"
        ELSE "again"

\* confirm_input from the line at index pos on: what it returns and the index
\* of the line after the last one it read.
RECURSIVE confirm_input(_, _)
confirm_input(input, pos) ==
    LET got == read_line(input, pos)
        answer == ConfirmAnswer(got.line)
    IN  IF ~got.ok THEN [kind |-> "GenericIo", value |-> FALSE, next |-> pos + 1]
        ELSE IF answer = "again" THEN confirm_input(input, pos + 1)
        ELSE [kind |-> "Ok", value |-> answer = "yes", next |-> pos + 1]

\* fs::read_dir(dir).count(): the entries of the directory.
DirCount(f, dir) == Cardinality({q \in DOMAIN f : Len(q) > 1 /\ Parent(q) = dir})

get_trash_status_never_empty(f, trash_dir) ==
    LET files_dir == Join(trash_dir, <<TRASH_FILES_DIR_NAME>>)
        info_dir == Join(trash_dir, <<TRASH_INFO_DIR_NAME>>)
    IN  IF ~PathIsDir(f, files_dir)
        THEN [kind |-> "Io", path |-> files_dir, item_count |-> 0, is_empty |-> FALSE]
        ELSE IF ~PathIsDir(f, info_dir)
        THEN [kind |-> "Io", path |-> info_dir, item_count |-> 0, is_empty |-> FALSE]
        ELSE [kind |-> "Ok", path |-> <<>>,
              item_count |-> DirCount(f, files_dir), is_empty |-> FALSE]

\* get_trash_status: (files_dir_count, files_dir_count == 0 && info_dir_count == 0)
get_trash_status(f, trash_dir) ==
    LET files_dir == Join(trash_dir, <<TRASH_FILES_DIR_NAME>>)
        info_dir == Join(trash_dir, <<TRASH_INFO_DIR_NAME>>)
    IN  IF ~PathIsDir(f, files_dir)
        THEN [kind |-> "Io", path |-> files_dir, item_count |-> 0, is_empty |-> FALSE]
        ELSE IF ~PathIsDir(f, info_dir)
        THEN [kind |-> "Io", path |-> info_dir, item_count |-> 0, is_empty |-> FALSE]
        ELSE [kind |-> "Ok", path |-> <<>>,
              item_count |-> DirCount(f, files_dir),
              is_empty |-> DirCount(f, files_dir) = 0 /\ DirCount(f, info_dir) = 0]

\* ------------------------------------------------------------------------
\* The world of the model
\* ------------------------------------------------------------------------

\* The user's data directory "/h" (dirs::data_dir()), two directories "/h/d"
\* and "/h/o" in it and the file name "%41.t" (a name the percent encoding
\* changes, with an extension).
DataDir == <<RootDir, <<104>>>>

Docs == Join(DataDir, <<<<100>>>>)

Other == Join(DataDir, <<<<111>>>>)

ItemName == <<37, 52, 49, 46, 116>>

\* get_local_trash_path: <data dir>/Trash
get_local_trash_path == Join(DataDir, <<<<84, 114, 97, 115, 104>>>>)

HomeTrash == TargetTrash(get_local_trash_path, "Home")

\* The places where the user keeps items.
LeafPaths == {Join(Docs, <<ItemName>>)}

\* What the user's symbolic links point to.
LinkTargets == {Other}

\* Local::now() formatted with TRASH_INFO_DATE_FORMAT: "2024-01-01T12:00:00"
DeletionDates ==
    {<<50, 48, 50, 52, 45, 48, 49, 45, 48, 49, 84, 49, 50, 58, 48, 48, 58, 48, 48>>}

\* The command lines: the working directory of the process and the path as
\* the user spelled it.
Arg(cwd, source_path) == [cwd |-> cwd, source_path |-> source_path]

\* What the user trashes: an item, by its absolute path or by its name from
\* the directory it is in.
UserArgs ==
    {Arg(DataDir, q) : q \in LeafPaths} \cup {Arg(Docs, <<ItemName>>)}

\* Sources inside the trash directory or around it: the trash root by its
\* absolute path and by its name, its parent directory, a trashed item and
\* an info record by their absolute paths, a trashed item by its name from
\* files/.
TrashArgs ==
    {Arg(DataDir, HomeTrash.root_path),
     Arg(DataDir, <<FileName(HomeTrash.root_path)>>),
     Arg(DataDir, DataDir),
     Arg(DataDir, Join(files_path(HomeTrash), <<ItemName>>)),
     Arg(DataDir, Join(info_path(HomeTrash), <<ItemName \o TRASH_INFO_SUFFIX>>)),
     Arg(files_path(HomeTrash), <<ItemName>>)}

Procs == {1, 2}

\* The processes of the sequential specification.
Sequential == {1}

VARIABLES
    fs,       \* the file system
    nextId,   \* identity of the next item the environment creates
    pc,       \* per process: where it is in trash_item or restore_item
    call,     \* per process: the operation running and its arguments
    loc,      \* per process: dest_path, the error of the move, the warning
    result,   \* per process: the Result the operation returned
    fs0,      \* per process: the file system when the operation was called
    entries,  \* per process: the scanned entries not yet selected
    lastTrash \* history: the last successful trash_item, until something else acts

vars == <<fs, nextId, pc, call, loc, result, fs0, entries, lastTrash>>

NoEntry == TrashEntry(<<>>, <<>>, <<>>, <<>>)

NoCall == [op |-> "none", cwd |-> <<>>, source_path |-> <<>>, entry |-> NoEntry, mounts |-> <<>>]

NoLoc == [dest_path |-> <<>>, error |-> "", warned |-> FALSE]

NoResult == [kind |-> "none", path |-> <<>>]

\* What is below the trash root.
TrashContent(f) ==
    [q \in {x \in DOMAIN f : PathStartsWith(x, get_local_trash_path)} |-> f[q]]

NoTrash == [dest_path |-> <<>>, source |-> <<>>, before |-> <<>>]

Ok(path) == [kind |-> "Ok", path |-> path]

Err(kind, path) == [kind |-> kind, path |-> path]

\* The file system after ensure_structure_exists on the home trash.
InitialFs ==
    LET dirs == {<<RootDir>>, DataDir, Docs, Other, HomeTrash.root_path,
                 files_path(HomeTrash), info_path(HomeTrash)}
    IN  [q \in dirs |-> DirNode(0)]

Init ==
    /\ fs = InitialFs
    /\ nextId = 1
    /\ pc = [p \in Procs |-> "idle"]
    /\ call = [p \in Procs |-> NoCall]
    /\ loc = [p \in Procs |-> NoLoc]
    /\ result = [p \in Procs |-> NoResult]
    /\ fs0 = [p \in Procs |-> <<>>]
    /\ entries = [p \in Procs |-> {}]
    /\ lastTrash = NoTrash

Quiet == \A p \in Procs : pc[p] = "idle" /\ entries[p] = {}

\* ------------------------------------------------------------------------
\* The environment: the user creates and deletes items outside the trash
\* ------------------------------------------------------------------------

ParentIsDir(f, q) == Parent(q) \in DOMAIN f /\ f[Parent(q)].kind = "dir"

EnvCreate(q, node) ==
    /\ Quiet
    /\ nextId <= MaxItems
    /\ q \notin DOMAIN fs
    /\ ParentIsDir(fs, q)
    /\ fs' = [x \in DOMAIN fs \cup {q} |-> IF x = q THEN node ELSE fs[x]]
    /\ nextId' = nextId + 1
    /\ lastTrash' = NoTrash
    /\ UNCHANGED <<pc, call, loc, result, fs0, entries>>

EnvCreateFile == \E q \in LeafPaths : EnvCreate(q, FileNode(nextId, <<>>))

\* ln -s <target> <path>
EnvCreateSymlink ==
    \E q \in LeafPaths : \E t \in LinkTargets : EnvCreate(q, SymlinkNode(nextId, t))

\* rm, rmdir of an item or of an empty directory
EnvRemove ==
    \E q \in LeafPaths \cup {Docs, Other} :
        /\ Quiet
        /\ q \in DOMAIN fs
        /\ ~HasChildren(fs, q)
        /\ fs' = [x \in DOMAIN fs \ {q} |-> fs[x]]
        /\ lastTrash' = NoTrash
        /\ UNCHANGED <<nextId, pc, call, loc, result, fs0, entries>>

\* ------------------------------------------------------------------------
\* trash_item (src/src/trash/trashing.rs)
\* ------------------------------------------------------------------------

is_already_in_any_trash_location(source_path, trash_path) ==
    PathStartsWith(source_path, trash_path)

\* A create_trash_info_file that reports success and writes no record.
create_trash_info_file_without_record(f, cwd, original_path, dest_path, trash_info_path, deletion_date) ==
    [ok |-> Canonicalize(f, Absolute(cwd, original_path)) # <<>>, fs |-> f]

\* create_trash_info_file when nothing fails under it: the file system after
\* fs::write; ok is false when canonicalize or the write cannot succeed.
create_trash_info_file(f, cwd, original_path, dest_path, trash_info_path, deletion_date) ==
    LET original_abs_path == Canonicalize(f, Absolute(cwd, original_path))
        info_content == build_trash_info_content(original_abs_path, deletion_date)
        info_file_path == determine_info_file_path(dest_path, trash_info_path)
    IN  IF original_abs_path = <<>> \/ WriteError(f, info_file_path) # ""
        THEN [ok |-> FALSE, fs |-> f]
        ELSE [ok |-> TRUE, fs |-> WriteApply(f, info_file_path, info_content)]

\* A cleanup that leaves the info record where it is and reports no failure.
CleanupInfoFile_keeping_record(f, dest_path, trash_info_path, fault) ==
    [failed |-> FALSE, fs |-> f]

\* The cleanup after a failed move: remove_file on the info record; failed is
\* the warning branch.
CleanupInfoFile(f, dest_path, trash_info_path, fault) ==
    LET info_file_path == determine_info_file_path(dest_path, trash_info_path)
    IN  IF fault \/ RemoveFileError(f, info_file_path) # ""
        THEN [failed |-> TRUE, fs |-> f]
        ELSE [failed |-> FALSE, fs |-> RemoveFileApply(f, info_file_path)]

MoveError_always_io(error, source_path) == Err("Io", source_path)

\* The error trash_item returns for a failed move.
MoveError(error, source_path) ==
    IF error = "EXDEV"
    THEN Err("CrossDeviceMove", source_path)
    ELSE Err("Io", source_path)

Returns(p, r) ==
    /\ pc' = [pc EXCEPT ![p] = "ret"]
    /\ result' = [result EXCEPT ![p] = r]

\* The call, the two precondition checks and find_available_dest_path.
TrashCall(p, args) ==
    \E a \in args :
        LET src == Absolute(a.cwd, a.source_path)
            found == find_available_dest_path(fs, a.source_path, files_path(HomeTrash))
        IN  /\ Quiet
            /\ call' = [call EXCEPT ![p] =
                           [op |-> "trash", cwd |-> a.cwd,
                            source_path |-> a.source_path, entry |-> NoEntry, mounts |-> <<>>]]
            /\ fs0' = [fs0 EXCEPT ![p] = fs]
            /\ IF ~PathExists(fs, src)
               THEN Returns(p, Err("Io", a.source_path)) /\ UNCHANGED loc
               ELSE IF is_already_in_any_trash_location(a.source_path, HomeTrash.root_path)
               THEN Returns(p, Err("AlreadyInTrash", a.source_path)) /\ UNCHANGED loc
               ELSE IF ~found.ok
               THEN Returns(p, Err("Message", a.source_path)) /\ UNCHANGED loc
               ELSE /\ pc' = [pc EXCEPT ![p] = "t_info"]
                    /\ loc' = [loc EXCEPT ![p].dest_path = found.path]
                    /\ UNCHANGED result
            /\ lastTrash' = NoTrash
            /\ UNCHANGED <<fs, nextId, entries>>

\* create_trash_info_file(source_path, &dest_path, &trash_info_path)?
\* The write may be refused ("fail").
TrashWriteInfo(p) ==
    \E fault \in {"none", "fail"} : \E date \in DeletionDates :
        LET c == call[p]
            w == create_trash_info_file(fs, c.cwd, c.source_path, loc[p].dest_path,
                                        info_path(HomeTrash), date)
        IN  /\ pc[p] = "t_info"
            /\ IF fault = "none" /\ w.ok
               THEN /\ fs' = w.fs
                    /\ pc' = [pc EXCEPT ![p] = "t_rename"]
                    /\ UNCHANGED result
               ELSE /\ UNCHANGED fs
                    /\ Returns(p, Err("GenericIo", <<>>))
            /\ UNCHANGED <<nextId, call, loc, fs0, entries, lastTrash>>

\* fs::rename(source_path, &dest_path); the move may also fail for a reason
\* outside the model's file system (another device, permissions).
TrashRename(p) ==
    \E fault \in {"", "EXDEV", "EACCES"} :
        LET src == Absolute(call[p].cwd, call[p].source_path)
            e == IF fault # "" THEN fault ELSE RenameError(fs, src, loc[p].dest_path)
        IN  /\ pc[p] = "t_rename"
            /\ IF e = ""
               THEN /\ fs' = RenameApply(fs, src, loc[p].dest_path)
                    /\ Returns(p, Ok(<<>>))
                    /\ lastTrash' = [dest_path |-> loc[p].dest_path, source |-> src,
                                     before |-> TrashContent(fs0[p])]
                    /\ UNCHANGED loc
               ELSE /\ pc' = [pc EXCEPT ![p] = "t_cleanup"]
                    /\ loc' = [loc EXCEPT ![p].error = e]
                    /\ UNCHANGED <<fs, result, lastTrash>>
            /\ UNCHANGED <<nextId, call, fs0, entries>>

\* The cleanup of the info record and the error returned.
TrashCleanup(p) ==
    \E fault \in BOOLEAN :
        LET r == CleanupInfoFile(fs, loc[p].dest_path, info_path(HomeTrash), fault)
        IN  /\ pc[p] = "t_cleanup"
            /\ fs' = r.fs
            /\ loc' = [loc EXCEPT ![p].warned = r.failed]
            /\ Returns(p, MoveError(loc[p].error, call[p].source_path))
            /\ UNCHANGED <<nextId, call, fs0, entries, lastTrash>>

\* ------------------------------------------------------------------------
\* restore_item (src/src/trash/restoring.rs)
\* ------------------------------------------------------------------------

\* find_trash_entries: the scan that opens a restore session.
Scan(p) ==
    LET found == find_trash_entries_in_dirs(fs, <<HomeTrash.root_path>>)
    IN  /\ Quiet
        /\ found.ok
        /\ found.entries # <<>>
        /\ entries' = [entries EXCEPT ![p] =
                          {found.entries[i] : i \in 1..Len(found.entries)}]
        /\ UNCHANGED <<fs, nextId, pc, call, loc, result, fs0, lastTrash>>

\* The session ends with entries left unselected.
EndSession(p) ==
    /\ pc[p] = "idle"
    /\ entries[p] # {}
    /\ entries' = [entries EXCEPT ![p] = {}]
    /\ UNCHANGED <<fs, nextId, pc, call, loc, result, fs0, lastTrash>>

\* The call and the collision check.
RestoreCall(p) ==
    \E e \in entries[p] :
        /\ pc[p] = "idle"
        /\ call' = [call EXCEPT ![p] =
                       [op |-> "restore", cwd |-> DataDir,
                        source_path |-> <<>>, entry |-> e, mounts |-> <<>>]]
        /\ fs0' = [fs0 EXCEPT ![p] = fs]
        /\ entries' = [entries EXCEPT ![p] = entries[p] \ {e}]
        /\ IF PathExists(fs, e.original_path)
           THEN Returns(p, Err("RestoreCollision", e.original_path))
           ELSE pc' = [pc EXCEPT ![p] = "r_mkdir"] /\ UNCHANGED result
        /\ lastTrash' = IF e.trashed_path = lastTrash.dest_path THEN lastTrash ELSE NoTrash
        /\ UNCHANGED <<fs, nextId, loc>>

\* A check of the trashed item that never finds it missing.
TrashedItemMissing_unchecked(f, entry) == FALSE

\* The check `!entry.trashed_path.exists()`.
TrashedItemMissing(f, entry) == ~PathExists(f, entry.trashed_path)

\* fs::create_dir_all(parent), then the check that the trashed item exists.
\* Creating a missing directory may be refused (permissions); a parent that
\* is already a directory is accepted as it is.
RestoreMkdir(p) ==
    \E fault \in BOOLEAN :
        LET e == call[p].entry
            parent == Parent(e.original_path)
            made == CreateDirAll(fs, parent)
        IN  /\ pc[p] = "r_mkdir"
            /\ fault => ~(parent = <<>> \/ PathIsDir(fs, parent))
            /\ IF fault \/ ~made.ok
               THEN /\ Returns(p, Err("Io", parent))
                    /\ UNCHANGED fs
               ELSE /\ fs' = made.fs
                    /\ IF TrashedItemMissing(made.fs, e)
                       THEN Returns(p, Err("TrashedItemNotFound", e.trashed_path))
                       ELSE pc' = [pc EXCEPT ![p] = "r_rename"] /\ UNCHANGED result
            /\ UNCHANGED <<nextId, call, loc, fs0, entries, lastTrash>>

\* fs::rename(&entry.trashed_path, &entry.original_path)
RestoreRename(p) ==
    \E fault \in {"", "EXDEV", "EACCES"} :
        LET e == call[p].entry
            err == IF fault # "" THEN fault
                   ELSE RenameError(fs, e.trashed_path, e.original_path)
        IN  /\ pc[p] = "r_rename"
            /\ IF err = ""
               THEN /\ fs' = RenameApply(fs, e.trashed_path, e.original_path)
                    /\ pc' = [pc EXCEPT ![p] = "r_cleanup"]
                    /\ UNCHANGED <<result, loc>>
               ELSE /\ loc' = [loc EXCEPT ![p].error = err]
                    /\ Returns(p, Err("Io", e.trashed_path))
                    /\ UNCHANGED fs
            /\ UNCHANGED <<nextId, call, fs0, entries, lastTrash>>

\* A result that turns a failed deletion of the info record into an error.
RestoreResult_propagating(entry, cleanup_failed) ==
    IF cleanup_failed THEN Err("Io", entry.info_path) ELSE Ok(entry.original_path)

\* The result of restore_item once the move has succeeded.
RestoreResult(entry, cleanup_failed) == Ok(entry.original_path)

\* fs::remove_file(&entry.info_path), a failure being only a warning.
RestoreCleanup(p) ==
    \E fault \in BOOLEAN :
        LET e == call[p].entry
            failed == fault \/ RemoveFileError(fs, e.info_path) # ""
        IN  /\ pc[p] = "r_cleanup"
            /\ fs' = IF failed THEN fs ELSE RemoveFileApply(fs, e.info_path)
            /\ loc' = [loc EXCEPT ![p].warned = failed]
            /\ Returns(p, RestoreResult(e, failed))
            /\ UNCHANGED <<nextId, call, fs0, entries, lastTrash>>

\* ------------------------------------------------------------------------
\* Control
\* ------------------------------------------------------------------------

Steps == {"t_info", "t_rename", "t_cleanup", "r_mkdir", "r_rename", "r_cleanup"}

\* The process is killed between two steps.
Crash(p) ==
    /\ pc[p] \in Steps
    /\ pc' = [pc EXCEPT ![p] = "crashed"]
    /\ UNCHANGED <<fs, nextId, call, loc, result, fs0, entries, lastTrash>>

\* The caller has the result (or the process is gone): the next operation
\* can start.
Return(p) ==
    /\ pc[p] \in {"ret", "crashed"}
    /\ pc' = [pc EXCEPT ![p] = "idle"]
    /\ call' = [call EXCEPT ![p] = NoCall]
    /\ loc' = [loc EXCEPT ![p] = NoLoc]
    /\ result' = [result EXCEPT ![p] = NoResult]
    /\ fs0' = [fs0 EXCEPT ![p] = <<>>]
    /\ entries' = [entries EXCEPT ![p] = IF pc[p] = "crashed" THEN {} ELSE entries[p]]
    /\ lastTrash' = IF call[p].op = "restore" THEN NoTrash ELSE lastTrash
    /\ UNCHANGED <<fs, nextId>>

Next ==
    \/ EnvCreateFile
    \/ EnvCreateSymlink
    \/ EnvRemove
    \/ \E p \in Sequential :
        \/ TrashCall(p, UserArgs)
        \/ TrashWriteInfo(p)
        \/ TrashRename(p)
        \/ TrashCleanup(p)
        \/ Scan(p)
        \/ EndSession(p)
        \/ RestoreCall(p)
        \/ RestoreMkdir(p)
        \/ RestoreRename(p)
        \/ RestoreCleanup(p)
        \/ Crash(p)
        \/ Return(p)

Spec == Init /\ [][Next]_vars

\* The trashing protocol alone, for every spelling of a source: the user's
\* items and the sources inside the trash directory or around it.
NextArgs ==
    \/ EnvCreateFile
    \/ \E p \in Sequential :
        \/ TrashCall(p, UserArgs \cup TrashArgs)
        \/ TrashWriteInfo(p)
        \/ TrashRename(p)
        \/ TrashCleanup(p)
        \/ Return(p)

SpecArgs == Init /\ [][NextArgs]_vars

\* ------------------------------------------------------------------------
\* find_available_dest_path on its own: a name and a content of files/
\* ------------------------------------------------------------------------

\* The shapes of a file name: "n" (no dot), ".c" (a dotfile), "a.t" (one
\* extension), "a.t.g" (several dots), ".c.d" (a dotfile with a second dot).
DestNames ==
    {<<110>>, <<46, 99>>, <<97, 46, 116>>, <<97, 46, 116, 46, 103>>, <<46, 99, 46, 100>>}

\* The names an entry of files/ can carry: the name itself and the
\* candidates of the first counter values, the unused value 1 included.
Candidates(name) ==
    {name} \cup {NewFilename(name, n) : n \in 1..(MaxExisting + 1)}

\* An entry of files/: a trashed file, or a trashed symbolic link whose
\* target does not exist.
ExistingEntry(kind) ==
    IF kind = "file"
    THEN FileNode(1, <<>>)
    ELSE SymlinkNode(1, Join(Docs, <<ItemName>>))

InitDest ==
    \E name \in DestNames : \E S \in SUBSET Candidates(name) :
        \E kinds \in [S -> {"file", "symlink"}] :
            /\ Cardinality(S) <= MaxExisting
            /\ fs = [q \in DOMAIN InitialFs \cup {Join(files_path(HomeTrash), <<n>>) : n \in S} |->
                        IF q \in DOMAIN InitialFs
                        THEN InitialFs[q]
                        ELSE ExistingEntry(kinds[FileName(q)])]
            /\ nextId = 1
            /\ pc = [p \in Procs |-> "idle"]
            /\ call = [p \in Procs |->
                          IF p \in Sequential
                          THEN [op |-> "find", cwd |-> Docs,
                                source_path |-> <<name>>, entry |-> NoEntry, mounts |-> <<>>]
                          ELSE NoCall]
            /\ loc = [p \in Procs |-> NoLoc]
            /\ result = [p \in Procs |-> NoResult]
            /\ fs0 = [p \in Procs |-> <<>>]
            /\ entries = [p \in Procs |-> {}]
            /\ lastTrash = NoTrash

\* let dest_path = find_available_dest_path(source_path, &trash_files_path)?
DestFind(p) ==
    LET found == find_available_dest_path(fs, call[p].source_path, files_path(HomeTrash))
    IN  /\ pc[p] = "idle"
        /\ call[p].op = "find"
        /\ found.ok
        /\ loc' = [loc EXCEPT ![p].dest_path = found.path]
        /\ pc' = [pc EXCEPT ![p] = "found"]
        /\ UNCHANGED <<fs, nextId, call, result, fs0, entries, lastTrash>>

NextDest == \E p \in Sequential : DestFind(p)

SpecDest == InitDest /\ [][NextDest]_vars

\* ------------------------------------------------------------------------
\* get_target_trash on its own: a target, a mount list and a file system
\* ------------------------------------------------------------------------

\* A second file system mounted at "/m", with the item "/m/%41.t" on it.
MountM == <<RootDir, <<109>>>>

\* "/h/T": as text a prefix of the home trash path "/h/Trash", but not a
\* prefix of it component by component.
MountT == Join(DataDir, <<<<84>>>>)

\* The mount points a mount list is made of: "/", "/h", "/m" and "/h/T".
MountPoints == {<<RootDir>>, DataDir, MountM, MountT}

\* The mount lists, in every order and with repetitions.
MountLists == UNION {[1..n -> MountPoints] : n \in 0..MaxMounts}

\* "/h/d/l", a symbolic link to the item on the other mount.
LinkToM == Join(Docs, <<<<108>>>>)

\* "/m/s", what a symbolic link at "/m/.Trash" or at the home trash leads to.
SharedElsewhere == Join(MountM, <<<<115>>>>)

\* The targets: an item of the home mount by its absolute path and by its
\* name, an item of the other mount, and a link to it.
ResolveArgs ==
    {Arg(DataDir, Join(Docs, <<ItemName>>)),
     Arg(Docs, <<ItemName>>),
     Arg(DataDir, Join(MountM, <<ItemName>>)),
     Arg(DataDir, LinkToM)}

\* What is at the home trash root: nothing yet, a directory, a symbolic link.
HomeTrashKinds == {"absent", "dir", "symlink"}

\* What is at "/m/.Trash": nothing, a regular file, a directory without the
\* sticky bit, a directory with it (0o1777), a symbolic link to such a directory.
SharedTrashKinds == {"absent", "file", "dir", "sticky", "symlink"}

ResolveFs(home_kind, shared_kind) ==
    LET shared == Join(MountM, <<SharedTrashName>>)
        base == (<<RootDir>> :> DirNode(0)) @@ (DataDir :> DirNode(0))
                @@ (Docs :> DirNode(0)) @@ (MountM :> DirNode(0))
                @@ (Join(Docs, <<ItemName>>) :> FileNode(1, <<>>))
                @@ (Join(MountM, <<ItemName>>) :> FileNode(2, <<>>))
                @@ (LinkToM :> SymlinkNode(3, Join(MountM, <<ItemName>>)))
                @@ (SharedElsewhere :> DirNodeMode(0, 1023))
        home == IF home_kind = "dir" THEN (get_local_trash_path :> DirNode(0))
                ELSE IF home_kind = "symlink"
                THEN (get_local_trash_path :> SymlinkNode(0, SharedElsewhere))
                ELSE <<>>
        top == IF shared_kind = "file" THEN (shared :> FileNode(0, <<>>))
               ELSE IF shared_kind = "dir" THEN (shared :> DirNode(0))
               ELSE IF shared_kind = "sticky" THEN (shared :> DirNodeMode(0, 1023))
               ELSE IF shared_kind = "symlink" THEN (shared :> SymlinkNode(0, SharedElsewhere))
               ELSE <<>>
    IN  [q \in DOMAIN base \cup DOMAIN home \cup DOMAIN top |->
            IF q \in DOMAIN home THEN home[q]
            ELSE IF q \in DOMAIN top THEN top[q]
            ELSE base[q]]

InitResolve ==
    \E a \in ResolveArgs : \E mounts \in MountLists :
        \E home_kind \in HomeTrashKinds : \E shared_kind \in SharedTrashKinds :
            /\ fs = ResolveFs(home_kind, shared_kind)
            /\ nextId = 1
            /\ pc = [p \in Procs |-> "idle"]
            /\ call = [p \in Procs |->
                          IF p \in Sequential
                          THEN [op |-> "resolve", cwd |-> a.cwd,
                                source_path |-> a.source_path, entry |-> NoEntry,
                                mounts |-> mounts]
                          ELSE NoCall]
            /\ loc = [p \in Procs |-> NoLoc]
            /\ result = [p \in Procs |-> NoResult]
            /\ fs0 = [p \in Procs |-> <<>>]
            /\ entries = [p \in Procs |-> {}]
            /\ lastTrash = NoTrash

\* resolve_target_trash: get_target_trash(path, &mounts)
Resolve(p) ==
    /\ pc[p] = "idle"
    /\ call[p].op = "resolve"
    /\ result' = [result EXCEPT ![p] =
                      get_target_trash(fs, call[p].cwd, call[p].source_path,
                                       call[p].mounts, get_local_trash_path)]
    /\ pc' = [pc EXCEPT ![p] = "resolved"]
    /\ UNCHANGED <<fs, nextId, call, loc, fs0, entries, lastTrash>>

NextResolve == \E p \in Sequential : Resolve(p)

SpecResolve == InitResolve /\ [][NextResolve]_vars

\* ------------------------------------------------------------------------
\* find_all_trash_dirs on its own: a mount table and a file system
\* ------------------------------------------------------------------------

\* A line of /proc/mounts for a mount point: "d <mount point> t rw 0 0".
MountLine(m) ==
    <<100, 32>> \o PathToString(m) \o <<32, 116, 32, 114, 119, 32, 48, 32, 48>>

\* What is at "/m/.Trash-<uid>": nothing, a directory, a regular file.
PrivateTrashKinds == {"absent", "dir", "file"}

\* What is at "/m/.Trash": nothing, a regular file, a directory without the
\* sticky bit, a directory with it.
SharedBaseKinds == {"absent", "file", "dir", "sticky"}

DirsFs(home_is_dir, shared_kind, user_dir, private_kind) ==
    LET shared == Join(MountM, <<SharedTrashName>>)
        private == Join(MountM, <<PrivateTrashName>>)
        base == (<<RootDir>> :> DirNode(0)) @@ (DataDir :> DirNode(0))
                @@ (MountM :> DirNode(0))
        home == IF home_is_dir THEN (get_local_trash_path :> DirNode(0)) ELSE <<>>
        top == IF shared_kind = "file" THEN (shared :> FileNode(0, <<>>))
               ELSE IF shared_kind = "dir" THEN (shared :> DirNode(0))
               ELSE IF shared_kind = "sticky" THEN (shared :> DirNodeMode(0, 1023))
               ELSE <<>>
        user == IF user_dir /\ shared_kind \in {"dir", "sticky"}
                THEN (Join(shared, <<Digits(Uid)>>) :> DirNode(0))
                ELSE <<>>
        own == IF private_kind = "dir" THEN (private :> DirNode(0))
               ELSE IF private_kind = "file" THEN (private :> FileNode(0, <<>>))
               ELSE <<>>
        all == DOMAIN base \cup DOMAIN home \cup DOMAIN top \cup DOMAIN user \cup DOMAIN own
    IN  [q \in all |->
            IF q \in DOMAIN home THEN home[q]
            ELSE IF q \in DOMAIN top THEN top[q]
            ELSE IF q \in DOMAIN user THEN user[q]
            ELSE IF q \in DOMAIN own THEN own[q]
            ELSE base[q]]

InitDirs ==
    \E mounts \in MountLists : \E home_is_dir \in BOOLEAN :
        \E shared_kind \in SharedBaseKinds : \E user_dir \in BOOLEAN :
            \E private_kind \in PrivateTrashKinds :
                /\ fs = DirsFs(home_is_dir, shared_kind, user_dir, private_kind)
                /\ nextId = 1
                /\ pc = [p \in Procs |-> "idle"]
                /\ call = [p \in Procs |->
                              IF p \in Sequential
                              THEN [op |-> "dirs", cwd |-> DataDir,
                                    source_path |-> <<>>, entry |-> NoEntry,
                                    mounts |-> mounts]
                              ELSE NoCall]
                /\ loc = [p \in Procs |-> NoLoc]
                /\ result = [p \in Procs |-> NoResult]
                /\ fs0 = [p \in Procs |-> <<>>]
                /\ entries = [p \in Procs |-> {}]
                /\ lastTrash = NoTrash

\* find_all_trash_dirs(), the mount table holding one line for each mount
\* point of the list.
FindDirs(p) ==
    LET lines == [i \in 1..Len(call[p].mounts) |-> MountLine(call[p].mounts[i])]
    IN  /\ pc[p] = "idle"
        /\ call[p].op = "dirs"
        /\ fs0' = [fs0 EXCEPT ![p] = fs]
        /\ result' = [result EXCEPT ![p] =
                          [kind |-> "Ok", path |-> <<>>,
                           dirs |-> find_all_trash_dirs(fs, lines, get_local_trash_path)]]
        /\ pc' = [pc EXCEPT ![p] = "listed"]
        /\ UNCHANGED <<fs, nextId, call, loc, entries, lastTrash>>

NextDirs == \E p \in Sequential : FindDirs(p)

SpecDirs == InitDirs /\ [][NextDirs]_vars

\* ------------------------------------------------------------------------
\* ensure_structure_exists on its own: a location, a file system, a system
\* that may refuse, and the call made twice
\* ------------------------------------------------------------------------

\* The locations: the home trash, and the three trashes of the mount "/m".
EnsureLocations ==
    {TargetTrash(get_local_trash_path, "Home"),
     TargetTrash(Join(MountM, <<SharedTrashName>>), "TopdirShared"),
     TargetTrash(Join(MountM, <<SharedTrashName, Digits(Uid)>>), "TopdirSharedUser"),
     TargetTrash(Join(MountM, <<PrivateTrashName>>), "TopdirPrivate")}

\* What is at the root: nothing, a directory, a regular file.
RootKinds == {"absent", "dir", "file"}

\* What is at files/ and at info/: nothing, an empty directory, a directory
\* with an entry, a regular file.
SubdirKinds == {"absent", "dir", "full", "file"}

EnsureEnvs ==
    [create : {"ok", "denied", "fails"}, chmod : {"ok", "denied_0700", "denied", "fails"}]

\* The child of a trash root of the given kind.
SubdirFs(path, kind) ==
    IF kind = "dir" THEN (path :> DirNode(0))
    ELSE IF kind = "full" THEN (path :> DirNode(0)) @@ (Join(path, <<<<97>>>>) :> FileNode(0, <<>>))
    ELSE IF kind = "file" THEN (path :> FileNode(0, <<>>))
    ELSE <<>>

EnsureFs(t, root_kind, files_kind, info_kind) ==
    LET base == (<<RootDir>> :> DirNode(0)) @@ (DataDir :> DirNode(0))
                @@ (MountM :> DirNode(0))
        root == IF root_kind = "dir" THEN (t.root_path :> DirNode(0))
                ELSE IF root_kind = "file" THEN (t.root_path :> FileNode(0, <<>>))
                ELSE <<>>
        files == IF root_kind = "dir" THEN SubdirFs(files_path(t), files_kind) ELSE <<>>
        info == IF root_kind = "dir" THEN SubdirFs(info_path(t), info_kind) ELSE <<>>
        all == DOMAIN base \cup DOMAIN root \cup DOMAIN files \cup DOMAIN info
    IN  [q \in all |->
            IF q \in DOMAIN root THEN root[q]
            ELSE IF q \in DOMAIN files THEN files[q]
            ELSE IF q \in DOMAIN info THEN info[q]
            ELSE base[q]]

InitEnsure ==
    \E t \in EnsureLocations : \E root_kind \in RootKinds :
        \E files_kind \in SubdirKinds : \E info_kind \in SubdirKinds :
            \E env \in EnsureEnvs :
                /\ fs = EnsureFs(t, root_kind, files_kind, info_kind)
                /\ nextId = 1
                /\ pc = [p \in Procs |-> "idle"]
                /\ call = [p \in Procs |->
                              IF p \in Sequential
                              THEN [op |-> "ensure", cwd |-> DataDir,
                                    source_path |-> <<>>, entry |-> NoEntry,
                                    mounts |-> <<>>, trash |-> t, env |-> env]
                              ELSE NoCall]
                /\ loc = [p \in Procs |-> NoLoc]
                /\ result = [p \in Procs |-> NoResult]
                /\ fs0 = [p \in Procs |-> <<>>]
                /\ entries = [p \in Procs |-> {}]
                /\ lastTrash = NoTrash

\* target_trash.ensure_structure_exists(), a first time and a second time;
\* previous is what the call before it returned.
Ensure(p) ==
    LET done == ensure_structure_exists(fs, call[p].trash, call[p].env)
    IN  /\ pc[p] \in {"idle", "ensured"}
        /\ call[p].op = "ensure"
        /\ fs0' = [fs0 EXCEPT ![p] = fs]
        /\ fs' = done.fs
        /\ result' = [result EXCEPT ![p] =
                          [kind |-> done.kind, path |-> done.path,
                           previous |-> result[p].kind]]
        /\ pc' = [pc EXCEPT ![p] = IF pc[p] = "idle" THEN "ensured" ELSE "again"]
        /\ UNCHANGED <<nextId, call, loc, entries, lastTrash>>

NextEnsure == \E p \in Sequential : Ensure(p)

SpecEnsure == InitEnsure /\ [][NextEnsure]_vars

\* ------------------------------------------------------------------------
\* find_trash_entries_in_dirs on its own: two trash directories whose info/
\* holds records of every shape
\* ------------------------------------------------------------------------

\* The trash directories scanned: the home trash and the private trash of the
\* mount "/m".
ScanDirs == <<get_local_trash_path, Join(MountM, <<PrivateTrashName>>)>>

\* The base names of the records of one info/ directory: "a" and "b".
RecordNames == <<<<97>>, <<98>>>>

\* What an info/ directory holds under one base name: nothing; a complete
\* record with its item in files/; a complete record whose item is not in
\* files/; a record without its Path= line; a record without its
\* DeletionDate= line; a complete record in a file "<name>.t"; a record whose
\* Path decodes to bytes that are not UTF-8; a file whose bytes are not
\* UTF-8; a directory named "<name>.trashinfo".
RecordShapes ==
    {"absent", "valid", "orphan", "no_path", "no_date", "other_name", "bad_path",
     "binary", "dir"}

TheDate == CHOOSE d \in DeletionDates : TRUE

\* The path a complete record of the given base name was trashed from.
OriginalOf(name) == Join(Docs, <<name>>)

RecordFile(info_dir, name, shape) ==
    LET q == Join(info_dir, <<name \o TRASH_INFO_SUFFIX>>)
        date_line == TRASH_INFO_DATE_KEY \o <<61>> \o TheDate \o <<10>>
        path_line == TRASH_INFO_PATH_KEY \o <<61>> \o PathToString(OriginalOf(name)) \o <<10>>
    IN  IF shape = "valid"
        THEN (q :> FileNode(0, build_trash_info_content(OriginalOf(name), TheDate)))
             @@ (Join(Join(Parent(info_dir), <<TRASH_FILES_DIR_NAME>>), <<name>>)
                    :> FileNode(0, <<>>))
        ELSE IF shape = "orphan"
        THEN (q :> FileNode(0, build_trash_info_content(OriginalOf(name), TheDate)))
        ELSE IF shape = "no_path"
        THEN (q :> FileNode(0, TRASH_INFO_HEADER \o <<10>> \o date_line))
        ELSE IF shape = "no_date"
        THEN (q :> FileNode(0, TRASH_INFO_HEADER \o <<10>> \o path_line))
        ELSE IF shape = "other_name"
        THEN (Join(info_dir, <<name \o <<46, 116>>>>)
                 :> FileNode(0, build_trash_info_content(OriginalOf(name), TheDate)))
        ELSE IF shape = "bad_path"
        THEN (q :> FileNode(0, TRASH_INFO_HEADER \o <<10>> \o TRASH_INFO_PATH_KEY
                                \o <<61, 37, 70, 70, 10>> \o date_line))
        ELSE IF shape = "binary" THEN (q :> FileNode(0, <<255>>))
        ELSE IF shape = "dir" THEN (q :> DirNode(0))
        ELSE <<>>

\* shapes[i][j]: the shape under RecordNames[j] in info/ of ScanDirs[i].
ScanFs(shapes) ==
    LET base == {<<RootDir>>, DataDir, Docs, MountM}
                \cup {ScanDirs[i] : i \in 1..2}
                \cup {Join(ScanDirs[i], <<TRASH_FILES_DIR_NAME>>) : i \in 1..2}
                \cup {Join(ScanDirs[i], <<TRASH_INFO_DIR_NAME>>) : i \in 1..2}
        Rec(i, j) == RecordFile(Join(ScanDirs[i], <<TRASH_INFO_DIR_NAME>>),
                                RecordNames[j], shapes[i][j])
        recs == UNION {DOMAIN Rec(i, j) : i \in 1..2, j \in 1..2}
    IN  [q \in base \cup recs |->
            IF q \in base THEN DirNode(0)
            ELSE LET ij == CHOOSE ij \in (1..2) \X (1..2) : q \in DOMAIN Rec(ij[1], ij[2])
                 IN  Rec(ij[1], ij[2])[q]]

InitScan ==
    \E shapes \in [1..2 -> [1..2 -> RecordShapes]] :
        /\ fs = ScanFs(shapes)
        /\ nextId = 1
        /\ pc = [p \in Procs |-> "idle"]
        /\ call = [p \in Procs |->
                      IF p \in Sequential
                      THEN [op |-> "scan", cwd |-> DataDir,
                            source_path |-> <<>>, entry |-> NoEntry,
                            mounts |-> <<>>, trash_dirs |-> ScanDirs]
                      ELSE NoCall]
        /\ loc = [p \in Procs |-> NoLoc]
        /\ result = [p \in Procs |-> NoResult]
        /\ fs0 = [p \in Procs |-> <<>>]
        /\ entries = [p \in Procs |-> {}]
        /\ lastTrash = NoTrash

\* find_trash_entries_in_dirs(&trash_dirs)
FindEntries(p) ==
    LET found == find_trash_entries_in_dirs(fs, call[p].trash_dirs)
    IN  /\ pc[p] = "idle"
        /\ call[p].op = "scan"
        /\ fs0' = [fs0 EXCEPT ![p] = fs]
        /\ result' = [result EXCEPT ![p] =
                          [kind |-> IF found.ok THEN "Ok" ELSE "Io", path |-> <<>>,
                           entries |-> found.entries]]
        /\ pc' = [pc EXCEPT ![p] = "scanned"]
        /\ UNCHANGED <<fs, nextId, call, loc, entries, lastTrash>>

NextScan == \E p \in Sequential : FindEntries(p)

SpecScan == InitScan /\ [][NextScan]_vars

\* ------------------------------------------------------------------------
\* The percent encoding on its own: a text is encoded, the result decoded
\* ------------------------------------------------------------------------

\* The bytes the longer texts are made of: / a % 4 1 space and the two bytes
\* of U+00E9.
TextAlphabet == {47, 97, 37, 52, 49, 32, 195, 169}

\* "/home/user/documents/report.pdf"
ReportPath ==
    <<47, 104, 111, 109, 101, 47, 117, 115, 101, 114, 47, 100, 111, 99, 117, 109,
      101, 110, 116, 115, 47, 114, 101, 112, 111, 114, 116, 46, 112, 100, 102>>

\* The texts: a &str is well-formed UTF-8. Every ASCII character alone, a
\* character of three bytes and one of four, "-_.~", the path of the
\* example, and every text over TextAlphabet up to MaxTextLen bytes.
Texts ==
    {t \in {<<b>> : b \in 0..127}
            \cup {<<226, 130, 172>>, <<240, 159, 152, 128>>, <<45, 95, 46, 126>>, ReportPath}
            \cup UNION {[1..n -> TextAlphabet] : n \in 0..MaxTextLen} :
        Utf8ValidFrom(t, 1)}

InitCodec ==
    \E t \in Texts :
        /\ fs = (<<RootDir>> :> DirNode(0))
        /\ nextId = 1
        /\ pc = [p \in Procs |-> "idle"]
        /\ call = [p \in Procs |->
                      IF p \in Sequential
                      THEN [op |-> "codec", cwd |-> <<>>,
                            source_path |-> <<>>, entry |-> NoEntry,
                            mounts |-> <<>>, text |-> t]
                      ELSE NoCall]
        /\ loc = [p \in Procs |-> NoLoc]
        /\ result = [p \in Procs |-> NoResult]
        /\ fs0 = [p \in Procs |-> <<>>]
        /\ entries = [p \in Procs |-> {}]
        /\ lastTrash = NoTrash

\* trash_spec_url_encode(text)
Encode(p) ==
    /\ pc[p] = "idle"
    /\ call[p].op = "codec"
    /\ result' = [result EXCEPT ![p] =
                      [kind |-> "Ok", path |-> <<>>,
                       text |-> trash_spec_url_encode(call[p].text)]]
    /\ pc' = [pc EXCEPT ![p] = "encoded"]
    /\ UNCHANGED <<fs, nextId, call, loc, fs0, entries, lastTrash>>

\* trash_spec_url_decode(encoded), encoded being what Encode returned.
Decode(p) ==
    LET decoded == trash_spec_url_decode(result[p].text)
    IN  /\ pc[p] = "encoded"
        /\ result' = [result EXCEPT ![p] =
                          [kind |-> IF decoded.ok THEN "Ok" ELSE "FromUtf8",
                           path |-> <<>>, text |-> decoded.value,
                           encoded |-> result[p].text]]
        /\ pc' = [pc EXCEPT ![p] = "decoded"]
        /\ UNCHANGED <<fs, nextId, call, loc, fs0, entries, lastTrash>>

NextCodec == \E p \in Sequential : Encode(p) \/ Decode(p)

SpecCodec == InitCodec /\ [][NextCodec]_vars

\* ------------------------------------------------------------------------
\* empty_single_trash_dir on its own: a trash root in every condition, and
\* the call made twice
\* ------------------------------------------------------------------------

\* The trash roots emptied: the home trash and the private trash of "/m".
EmptyRoots == {get_local_trash_path, Join(MountM, <<PrivateTrashName>>)}

\* What is at files/ and at info/ before the call: nothing; an empty
\* directory; a directory holding a file and a directory with a file in it;
\* a regular file; a symbolic link to the directory "/h/d".
EmptySubdirKinds == {"absent", "dir", "full", "file", "link"}

EmptyEnvs ==
    [root_writable : BOOLEAN,
     unremovable : SUBSET {TRASH_FILES_DIR_NAME, TRASH_INFO_DIR_NAME}]

EmptySubdirFs(path, kind) ==
    IF kind = "dir" THEN (path :> DirNode(0))
    ELSE IF kind = "full"
    THEN (path :> DirNode(0))
         @@ (Join(path, <<<<97, 46, 116, 114, 97, 115, 104, 105, 110, 102, 111>>>>)
                :> FileNode(0, <<120>>))
         @@ (Join(path, <<<<100>>>>) :> DirNode(0))
         @@ (Join(path, <<<<100>>, <<120>>>>) :> FileNode(0, <<120>>))
    ELSE IF kind = "file" THEN (path :> FileNode(0, <<>>))
    ELSE IF kind = "link" THEN (path :> SymlinkNode(0, Docs))
    ELSE <<>>

EmptyFs(trash_root, root_is_dir, files_kind, info_kind) ==
    LET base == (<<RootDir>> :> DirNode(0)) @@ (DataDir :> DirNode(0))
                @@ (MountM :> DirNode(0)) @@ (Docs :> DirNode(0))
                @@ (Join(Docs, <<<<107>>>>) :> FileNode(0, <<107>>))
        root == IF root_is_dir THEN (trash_root :> DirNode(0)) ELSE <<>>
        files == IF root_is_dir
                 THEN EmptySubdirFs(Join(trash_root, <<TRASH_FILES_DIR_NAME>>), files_kind)
                 ELSE <<>>
        info == IF root_is_dir
                THEN EmptySubdirFs(Join(trash_root, <<TRASH_INFO_DIR_NAME>>), info_kind)
                ELSE <<>>
        all == DOMAIN base \cup DOMAIN root \cup DOMAIN files \cup DOMAIN info
    IN  [q \in all |->
            IF q \in DOMAIN root THEN root[q]
            ELSE IF q \in DOMAIN files THEN files[q]
            ELSE IF q \in DOMAIN info THEN info[q]
            ELSE base[q]]

InitEmpty ==
    \E trash_root \in EmptyRoots : \E root_is_dir \in BOOLEAN :
        \E files_kind \in EmptySubdirKinds : \E info_kind \in EmptySubdirKinds :
            \E env \in EmptyEnvs :
                /\ fs = EmptyFs(trash_root, root_is_dir, files_kind, info_kind)
                /\ nextId = 1
                /\ pc = [p \in Procs |-> "idle"]
                /\ call = [p \in Procs |->
                              IF p \in Sequential
                              THEN [op |-> "empty", cwd |-> DataDir,
                                    source_path |-> <<>>, entry |-> NoEntry,
                                    mounts |-> <<>>, trash_root |-> trash_root,
                                    env |-> env]
                              ELSE NoCall]
                /\ loc = [p \in Procs |-> NoLoc]
                /\ result = [p \in Procs |-> NoResult]
                /\ fs0 = [p \in Procs |-> <<>>]
                /\ entries = [p \in Procs |-> {}]
                /\ lastTrash = NoTrash

\* empty_single_trash_dir(trash_root), a first time and a second time;
\* previous is what the call before it returned.
Empty(p) ==
    LET done == empty_single_trash_dir(fs, call[p].trash_root, call[p].env)
    IN  /\ pc[p] \in {"idle", "emptied"}
        /\ call[p].op = "empty"
        /\ fs0' = [fs0 EXCEPT ![p] = fs]
        /\ fs' = done.fs
        /\ result' = [result EXCEPT ![p] =
                          [kind |-> done.kind, path |-> done.path,
                           previous |-> result[p].kind]]
        /\ pc' = [pc EXCEPT ![p] = IF pc[p] = "idle" THEN "emptied" ELSE "again"]
        /\ UNCHANGED <<nextId, call, loc, entries, lastTrash>>

NextEmpty == \E p \in Sequential : Empty(p)

SpecEmpty == InitEmpty /\ [][NextEmpty]_vars

\* ------------------------------------------------------------------------
\* confirm_input on its own: an input of lines, read one line a turn
\* ------------------------------------------------------------------------

\* The lines that accept: "\n", "y\n", "yes\n", "Y\n", "YES\n", " y \r\n".
YesLines ==
    {<<10>>, <<121, 10>>, <<121, 101, 115, 10>>, <<89, 10>>, <<89, 69, 83, 10>>,
     <<32, 121, 32, 13, 10>>}

\* The lines that decline: "n\n", "no\n", "No\n", "\tN\n".
NoLines == {<<110, 10>>, <<110, 111, 10>>, <<78, 111, 10>>, <<9, 78, 10>>}

\* The lines that are no answer: "maybe\n", "ye\n", "y n\n".
OtherLines ==
    {<<109, 97, 121, 98, 101, 10>>, <<121, 101, 10>>, <<121, 32, 110, 10>>}

\* A line that is not UTF-8.
BinaryLine == <<255, 10>>

InputLines == YesLines \cup NoLines \cup OtherLines \cup {BinaryLine}

Inputs == UNION {[1..n -> InputLines] : n \in 0..MaxLines}

\* read counts the calls of read_line, prompts the times the message was
\* written.
InitConfirm ==
    \E input \in Inputs :
        /\ fs = (<<RootDir>> :> DirNode(0))
        /\ nextId = 1
        /\ pc = [p \in Procs |-> "idle"]
        /\ call = [p \in Procs |->
                      IF p \in Sequential
                      THEN [op |-> "confirm", cwd |-> <<>>,
                            source_path |-> <<>>, entry |-> NoEntry,
                            mounts |-> <<>>, input |-> input]
                      ELSE NoCall]
        /\ loc = [p \in Procs |->
                     [dest_path |-> <<>>, error |-> "", warned |-> FALSE,
                      read |-> 0, prompts |-> 0, line |-> <<>>]]
        /\ result = [p \in Procs |-> NoResult]
        /\ fs0 = [p \in Procs |-> <<>>]
        /\ entries = [p \in Procs |-> {}]
        /\ lastTrash = NoTrash

\* One turn of the loop of confirm_input: the message is written, a line is
\* read, and the function returns or goes round again.
ConfirmTurn(p) ==
    LET got == read_line(call[p].input, loc[p].read + 1)
        answer == ConfirmAnswer(got.line)
    IN  /\ pc[p] \in {"idle", "asking"}
        /\ call[p].op = "confirm"
        /\ loc' = [loc EXCEPT ![p].prompts = @ + 1, ![p].read = @ + 1,
                              ![p].line = got.line]
        /\ IF ~got.ok
           THEN /\ pc' = [pc EXCEPT ![p] = "confirmed"]
                /\ result' = [result EXCEPT ![p] =
                                  [kind |-> "GenericIo", path |-> <<>>, value |-> FALSE]]
           ELSE IF answer = "again"
           THEN /\ pc' = [pc EXCEPT ![p] = "asking"]
                /\ UNCHANGED result
           ELSE /\ pc' = [pc EXCEPT ![p] = "confirmed"]
                /\ result' = [result EXCEPT ![p] =
                                  [kind |-> "Ok", path |-> <<>>, value |-> answer = "yes"]]
        /\ UNCHANGED <<fs, nextId, call, fs0, entries, lastTrash>>

NextConfirm == \E p \in Sequential : ConfirmTurn(p)

SpecConfirm == InitConfirm /\ [][NextConfirm]_vars

\* ------------------------------------------------------------------------
\* Two processes run trash_item at once on two sources of one file name
\* ------------------------------------------------------------------------

\* The source of process p: "/h/d/%41.t" for 1, "/h/o/%41.t" for 2.
RaceSource(p) == IF p = 1 THEN Join(Docs, <<ItemName>>) ELSE Join(Other, <<ItemName>>)

\* The sources are two regular files or two directories (the node of the
\* source of p has the identity p); files/ may hold an item of the name
\* already.
InitRace ==
    \E kind \in {"file", "dir"} : \E taken \in BOOLEAN :
        /\ fs = [q \in DOMAIN InitialFs \cup {RaceSource(p) : p \in Procs}
                        \cup (IF taken THEN {Join(files_path(HomeTrash), <<ItemName>>)} ELSE {}) |->
                    IF q \in DOMAIN InitialFs THEN InitialFs[q]
                    ELSE IF q = Join(files_path(HomeTrash), <<ItemName>>) THEN FileNode(3, <<>>)
                    ELSE LET p == CHOOSE x \in Procs : RaceSource(x) = q
                         IN  IF kind = "file" THEN FileNode(p, <<>>) ELSE DirNode(p)]
        /\ nextId = 4
        /\ pc = [p \in Procs |-> "idle"]
        /\ call = [p \in Procs |->
                      [op |-> "trash", cwd |-> DataDir, source_path |-> RaceSource(p),
                       entry |-> NoEntry, mounts |-> <<>>]]
        /\ loc = [p \in Procs |-> NoLoc]
        /\ result = [p \in Procs |-> NoResult]
        /\ fs0 = [p \in Procs |-> <<>>]
        /\ entries = [p \in Procs |-> {}]
        /\ lastTrash = NoTrash

\* trash_item up to find_available_dest_path, whatever the other process is
\* doing.
RaceCall(p) ==
    LET a == call[p]
        src == Absolute(a.cwd, a.source_path)
        found == find_available_dest_path(fs, a.source_path, files_path(HomeTrash))
    IN  /\ pc[p] = "idle"
        /\ fs0' = [fs0 EXCEPT ![p] = fs]
        /\ IF ~PathExists(fs, src)
           THEN Returns(p, Err("Io", a.source_path)) /\ UNCHANGED loc
           ELSE IF is_already_in_any_trash_location(a.source_path, HomeTrash.root_path)
           THEN Returns(p, Err("AlreadyInTrash", a.source_path)) /\ UNCHANGED loc
           ELSE IF ~found.ok
           THEN Returns(p, Err("Message", a.source_path)) /\ UNCHANGED loc
           ELSE /\ pc' = [pc EXCEPT ![p] = "t_info"]
                /\ loc' = [loc EXCEPT ![p].dest_path = found.path]
                /\ UNCHANGED result
        /\ UNCHANGED <<fs, nextId, call, entries, lastTrash>>

NextRace ==
    \E p \in Procs :
        \/ RaceCall(p)
        \/ TrashWriteInfo(p)
        \/ TrashRename(p)
        \/ TrashCleanup(p)

SpecRace == InitRace /\ [][NextRace]_vars

\* ------------------------------------------------------------------------
\* The specification of the record: build_trash_info_content, then the scan
\* ------------------------------------------------------------------------

\* The names the components of the original path are drawn from: "a", "a\nb",
\* "=", "%41", "a b", "DeletionDate=x", "Path=b", "e" with an acute accent,
\* and the single byte FF (a name that is not UTF-8).
RecordComponents ==
    {<<97>>, <<97, 10, 98>>, <<61>>, <<37, 52, 49>>, <<97, 32, 98>>,
     TRASH_INFO_DATE_KEY \o <<61, 120>>, TRASH_INFO_PATH_KEY \o <<61, 98>>,
     <<195, 169>>, <<255>>}

\* The absolute paths of one or two such components.
RecordPaths ==
    {<<RootDir, c>> : c \in RecordComponents}
    \cup {<<RootDir, c, d>> : c \in RecordComponents, d \in RecordComponents}

\* "2024-01-01T12:00:00" and "2025-12-31T23:59:59"
RecordDates ==
    DeletionDates
    \cup {<<50, 48, 50, 53, 45, 49, 50, 45, 51, 49, 84, 50, 51, 58, 53, 57, 58, 53, 57>>}

\* The record under test: info/r.trashinfo of the home trash.
RecordInfoFile ==
    Join(get_local_trash_path, <<TRASH_INFO_DIR_NAME, <<114>> \o TRASH_INFO_SUFFIX>>)

InitRecord ==
    \E original \in RecordPaths, date \in RecordDates :
        /\ fs = [q \in {<<RootDir>>, DataDir, get_local_trash_path,
                        Join(get_local_trash_path, <<TRASH_FILES_DIR_NAME>>),
                        Parent(RecordInfoFile)} |-> DirNode(0)]
        /\ nextId = 1
        /\ pc = [p \in Procs |-> "idle"]
        /\ call = [p \in Procs |->
                      IF p \in Sequential
                      THEN [op |-> "record", cwd |-> DataDir, source_path |-> original,
                            entry |-> NoEntry, mounts |-> <<>>, date |-> date]
                      ELSE NoCall]
        /\ loc = [p \in Procs |-> NoLoc]
        /\ result = [p \in Procs |-> NoResult]
        /\ fs0 = [p \in Procs |-> <<>>]
        /\ entries = [p \in Procs |-> {}]
        /\ lastTrash = NoTrash

\* fs::write(&info_file_path, build_trash_info_content(&original_abs_path, date))
BuildRecord(p) ==
    LET content == build_trash_info_content(call[p].source_path, call[p].date)
    IN  /\ pc[p] = "idle"
        /\ call[p].op = "record"
        /\ fs' = [q \in DOMAIN fs \cup {RecordInfoFile} |->
                     IF q = RecordInfoFile THEN FileNode(nextId, content) ELSE fs[q]]
        /\ nextId' = nextId + 1
        /\ pc' = [pc EXCEPT ![p] = "built"]
        /\ UNCHANGED <<call, loc, result, fs0, entries, lastTrash>>

\* The lines of a text, each ended by "\n", in the order the permutation gives.
RECURSIVE Unlines(_, _, _)
Unlines(lines, order, i) ==
    IF i > Len(lines) THEN <<>>
    ELSE lines[order[i]] \o <<10>> \o Unlines(lines, order, i + 1)

\* Another program rewrites the record with its lines in another order.
ReorderRecord(p) ==
    LET lines == SplitOn(SubSeq(fs[RecordInfoFile].content, 1,
                                Len(fs[RecordInfoFile].content) - 1), 10)
    IN  /\ pc[p] = "built"
        /\ \E order \in Permutations(1..Len(lines)) :
              /\ \E i \in 1..Len(lines) : order[i] # i
              /\ fs' = [fs EXCEPT ![RecordInfoFile].content = Unlines(lines, order, 1)]
        /\ pc' = [pc EXCEPT ![p] = "reordered"]
        /\ UNCHANGED <<nextId, call, loc, result, fs0, entries, lastTrash>>

\* The body of the scan's loop on the record.
ScanRecord(p) ==
    /\ pc[p] \in {"built", "reordered"}
    /\ result' = [result EXCEPT ![p] =
                      [kind |-> "Ok", path |-> <<>>,
                       entries |-> EntryOfInfoFile(fs, get_local_trash_path, RecordInfoFile)]]
    /\ pc' = [pc EXCEPT ![p] = "scanned"]
    /\ UNCHANGED <<fs, nextId, call, loc, fs0, entries, lastTrash>>

NextRecord == \E p \in Sequential : BuildRecord(p) \/ ReorderRecord(p) \/ ScanRecord(p)

SpecRecord == InitRecord /\ [][NextRecord]_vars

\* ------------------------------------------------------------------------
\* The specification of handle_empty_trash: the loop over the trash
\* directories, one directory per step
\* ------------------------------------------------------------------------

\* The list get_target_trash_dirs returns: the home trash and the private
\* trash of "/m".
HandleEmptyDirs == <<get_local_trash_path, Join(MountM, <<PrivateTrashName>>)>>

\* What files/ and info/ of a trash directory are before the command.
HandleFilesKinds == {"absent", "dir", "full"}

HandleInfoKinds == {"dir", "full"}

HandleEmptyFs(files_kinds, info_kinds) ==
    LET base == {<<RootDir>>, DataDir, MountM, Docs} \cup {HandleEmptyDirs[i] : i \in 1..2}
        Sub(i) == EmptySubdirFs(Join(HandleEmptyDirs[i], <<TRASH_FILES_DIR_NAME>>),
                                files_kinds[i])
                  @@ EmptySubdirFs(Join(HandleEmptyDirs[i], <<TRASH_INFO_DIR_NAME>>),
                                   info_kinds[i])
        subs == Sub(1) @@ Sub(2)
    IN  [q \in base \cup DOMAIN subs |-> IF q \in base THEN DirNode(0) ELSE subs[q]]

\* What the user types: nothing, "n", "y", "n" "n", "n" "y", "y" "n",
\* "maybe" "n", "maybe" "n" "y", a line that is not UTF-8, "n" and such a line.
HandleInputs ==
    LET y == <<121, 10>>
        n == <<110, 10>>
        maybe == <<109, 97, 121, 98, 101, 10>>
    IN  {<<>>, <<n>>, <<y>>, <<n, n>>, <<n, y>>, <<y, n>>, <<maybe, n>>,
         <<maybe, n, y>>, <<BinaryLine>>, <<n, BinaryLine>>}

\* opts.display || opts.long_format and what the listing does: not asked
\* for, written, or failing (an entry whose metadata cannot be read).
HandleListings == {"none", "shown", "fails"}

HandleEnvs ==
    {env \in EmptyEnvs : env.unremovable \in {{}, {TRASH_INFO_DIR_NAME}}
                          /\ (~env.root_writable => env.unremovable = {})}

\* index is the place in the list of the directory the next step is about,
\* read the number of lines of the input consumed so far; dir, answer are
\* what the last step was about and what it decided.
InitHandleEmpty ==
    \E files_kinds \in [1..2 -> HandleFilesKinds], info_kinds \in [1..2 -> HandleInfoKinds],
       no_confirm \in BOOLEAN, listing \in HandleListings, input \in HandleInputs,
       env \in HandleEnvs :
        /\ fs = HandleEmptyFs(files_kinds, info_kinds)
        /\ nextId = 1
        /\ pc = [p \in Procs |-> "idle"]
        /\ call = [p \in Procs |->
                      IF p \in Sequential
                      THEN [op |-> "handle_empty", cwd |-> DataDir, source_path |-> <<>>,
                            entry |-> NoEntry, mounts |-> <<>>,
                            trash_dirs |-> HandleEmptyDirs, no_confirm |-> no_confirm,
                            listing |-> listing, input |-> input, env |-> env]
                      ELSE NoCall]
        /\ loc = [p \in Procs |->
                     [dest_path |-> <<>>, error |-> "", warned |-> FALSE,
                      index |-> 1, read |-> 0, dir |-> <<>>, answer |-> "none"]]
        /\ result = [p \in Procs |-> NoResult]
        /\ fs0 = [p \in Procs |-> <<>>]
        /\ entries = [p \in Procs |-> {}]
        /\ lastTrash = NoTrash

\* One turn of the loop of handle_empty_trash, and the return after the last
\* one. The BufReader on the standard input is made for one confirmation and
\* dropped after it: the lines it read ahead of the answer (any number of
\* them, none on a terminal) are lost to the next confirmation.
HandleEmptyTurn(p) ==
    LET path == call[p].trash_dirs[loc[p].index]
        status == get_trash_status(fs, path)
        listed == ~(call[p].listing = "fails")
        asked == confirm_input(call[p].input, loc[p].read + 1)
        should_empty == call[p].no_confirm \/ (asked.kind = "Ok" /\ asked.value)
        emptied == empty_single_trash_dir(fs, path, call[p].env)
        last == loc[p].index = Len(call[p].trash_dirs)
        ReturnWith(kind, where) ==
            /\ pc' = [pc EXCEPT ![p] = "handled"]
            /\ result' = [result EXCEPT ![p] = [kind |-> kind, path |-> where]]
        Continue ==
            IF last THEN ReturnWith("Ok", <<>>)
            ELSE pc' = [pc EXCEPT ![p] = "looping"] /\ UNCHANGED result
    IN  /\ pc[p] \in {"idle", "looping"}
        /\ call[p].op = "handle_empty"
        /\ fs0' = [fs0 EXCEPT ![p] = fs]
        /\ \E lost \in 0..Len(call[p].input) :
              /\ lost <= IF asked.next - 1 >= Len(call[p].input) THEN 0
                         ELSE Len(call[p].input) - (asked.next - 1)
              /\ IF status.kind # "Ok"
                 THEN /\ ReturnWith(status.kind, status.path)
                      /\ loc' = [loc EXCEPT ![p].dir = path, ![p].answer = "none"]
                      /\ lost = 0
                      /\ fs' = fs
                 ELSE IF status.is_empty
                 THEN /\ Continue
                      /\ loc' = [loc EXCEPT ![p].dir = path, ![p].answer = "none",
                                            ![p].index = @ + 1]
                      /\ lost = 0
                      /\ fs' = fs
                 ELSE IF ~listed
                 THEN /\ ReturnWith("Io", path)
                      /\ loc' = [loc EXCEPT ![p].dir = path, ![p].answer = "none"]
                      /\ lost = 0
                      /\ fs' = fs
                 ELSE IF call[p].no_confirm
                 THEN /\ loc' = [loc EXCEPT ![p].dir = path, ![p].answer = "forced",
                                            ![p].index = @ + 1]
                      /\ lost = 0
                      /\ fs' = emptied.fs
                      /\ IF emptied.kind = "Ok" THEN Continue
                         ELSE ReturnWith(emptied.kind, emptied.path)
                 ELSE IF asked.kind # "Ok"
                 THEN /\ ReturnWith(asked.kind, <<>>)
                      /\ loc' = [loc EXCEPT ![p].dir = path, ![p].answer = "error",
                                            ![p].read = asked.next - 1]
                      /\ lost = 0
                      /\ fs' = fs
                 ELSE /\ loc' = [loc EXCEPT ![p].dir = path,
                                            ![p].answer = IF asked.value THEN "yes" ELSE "no",
                                            ![p].index = @ + 1,
                                            ![p].read = asked.next - 1 + lost]
                      /\ fs' = IF should_empty THEN emptied.fs ELSE fs
                      /\ IF should_empty /\ emptied.kind # "Ok"
                         THEN ReturnWith(emptied.kind, emptied.path)
                         ELSE Continue
        /\ UNCHANGED <<nextId, call, entries, lastTrash>>

NextHandleEmpty == \E p \in Sequential : HandleEmptyTurn(p)

SpecHandleEmpty == InitHandleEmpty /\ [][NextHandleEmpty]_vars

\* ------------------------------------------------------------------------
\* The specification of handle_move_to_trash: the loop over the files, the
\* steps of trash_item for each of them
\* ------------------------------------------------------------------------

\* The files named on the command line: "/h/d/y", "/h/o/x", "/h/o/y" and
\* "/h/d/z", which does not exist.
HandleY == Join(Docs, <<<<121>>>>)

HandleX == Join(Other, <<<<120>>>>)

HandleOtherY == Join(Other, <<<<121>>>>)

HandleMissing == Join(Docs, <<<<122>>>>)

HandleSources == {HandleY, HandleX, HandleOtherY, HandleMissing}

\* The command lines: one to three different files.
HandleFiles ==
    {files \in UNION {[1..n -> HandleSources] : n \in 1..3} :
        \A i, j \in 1..Len(files) : files[i] = files[j] => i = j}

\* "/h/d/y" is a regular file or a symbolic link to "/h/o/x"; "/h/o/y" is a
\* regular file or a directory; the home trash is in place.
HandleTrashFs(y_is_link, other_y_is_dir) ==
    InitialFs
    @@ (HandleY :> IF y_is_link THEN SymlinkNode(1, HandleX) ELSE FileNode(1, <<>>))
    @@ (HandleX :> FileNode(2, <<>>))
    @@ (HandleOtherY :> IF other_y_is_dir THEN DirNode(3) ELSE FileNode(3, <<>>))

\* What the system answers during ensure_structure_exists: everything
\* succeeds, or chmod fails.
HandleEnsureEnvs == {env \in EnsureEnvs : env.create = "ok" /\ env.chmod \in {"ok", "fails"}}

\* index is the place in the list of the next file, attempts the places
\* tried so far, outcomes what each attempt ended with, trashed the items the
\* attempts that succeeded left in the trash.
InitHandleTrash ==
    \E files \in HandleFiles, y_is_link \in BOOLEAN, other_y_is_dir \in BOOLEAN :
        /\ fs = HandleTrashFs(y_is_link, other_y_is_dir)
        /\ nextId = 4
        /\ pc = [p \in Procs |-> "idle"]
        /\ call = [p \in Procs |->
                      IF p \in Sequential
                      THEN [op |-> "handle_trash", cwd |-> DataDir, source_path |-> <<>>,
                            entry |-> NoEntry, mounts |-> <<>>, files |-> files]
                      ELSE NoCall]
        /\ loc = [p \in Procs |->
                     [dest_path |-> <<>>, error |-> "", warned |-> FALSE,
                      index |-> 1, attempts |-> <<>>, outcomes |-> <<>>, trashed |-> {}]]
        /\ result = [p \in Procs |-> NoResult]
        /\ fs0 = [p \in Procs |-> <<>>]
        /\ entries = [p \in Procs |-> {}]
        /\ lastTrash = NoTrash

\* What the attempt that has just returned adds to the history.
OutcomesAfter(p) ==
    IF pc[p] = "ret" THEN Append(loc[p].outcomes, result[p].kind) ELSE loc[p].outcomes

TrashedAfter(p) ==
    IF pc[p] = "ret" /\ result[p].kind = "Ok"
    THEN loc[p].trashed
         \cup {[dest_path |-> loc[p].dest_path,
                id |-> fs[loc[p].dest_path].id,
                record |-> fs[determine_info_file_path(loc[p].dest_path,
                                                       info_path(HomeTrash))].content]}
    ELSE loc[p].trashed

\* mountpoints::mountpaths()? fails: the command returns before the loop.
HandleTrashNoMounts(p) ==
    /\ pc[p] = "idle"
    /\ call[p].op = "handle_trash"
    /\ pc' = [pc EXCEPT ![p] = "handled"]
    /\ result' = [result EXCEPT ![p] = Err("GenericIo", <<>>)]
    /\ UNCHANGED <<fs, nextId, call, loc, fs0, entries, lastTrash>>

\* The next file of the list: resolve_target_trash (it answers the home
\* trash or an error), ensure_structure_exists, and trash_item up to
\* find_available_dest_path.
HandleTrashFile(p) ==
    \E resolved \in BOOLEAN, env \in HandleEnsureEnvs :
        LET file == call[p].files[loc[p].index]
            src == Absolute(call[p].cwd, file)
            ensured == ensure_structure_exists(fs, HomeTrash, env)
            found == find_available_dest_path(ensured.fs, file, files_path(HomeTrash))
            here == [loc[p] EXCEPT !.index = @ + 1,
                                   !.attempts = Append(@, loc[p].index),
                                   !.outcomes = OutcomesAfter(p),
                                   !.trashed = TrashedAfter(p),
                                   !.error = "", !.warned = FALSE]
        IN  /\ pc[p] \in {"idle", "ret"}
            /\ call[p].op = "handle_trash"
            /\ loc[p].index <= Len(call[p].files)
            /\ call' = [call EXCEPT ![p].source_path = file]
            /\ fs0' = [fs0 EXCEPT ![p] = fs]
            /\ IF ~resolved
               THEN /\ Returns(p, Err("Message", file))
                    /\ loc' = [loc EXCEPT ![p] = here]
                    /\ fs' = fs
               ELSE IF ensured.kind # "Ok"
               THEN /\ Returns(p, Err(ensured.kind, ensured.path))
                    /\ loc' = [loc EXCEPT ![p] = here]
                    /\ fs' = ensured.fs
               ELSE /\ fs' = ensured.fs
                    /\ IF ~PathExists(ensured.fs, src)
                       THEN /\ Returns(p, Err("Io", file))
                            /\ loc' = [loc EXCEPT ![p] = here]
                       ELSE IF is_already_in_any_trash_location(file, HomeTrash.root_path)
                       THEN /\ Returns(p, Err("AlreadyInTrash", file))
                            /\ loc' = [loc EXCEPT ![p] = here]
                       ELSE IF ~found.ok
                       THEN /\ Returns(p, Err("Message", file))
                            /\ loc' = [loc EXCEPT ![p] = here]
                       ELSE /\ pc' = [pc EXCEPT ![p] = "t_info"]
                            /\ loc' = [loc EXCEPT ![p] = [here EXCEPT !.dest_path = found.path]]
                            /\ UNCHANGED result
            /\ UNCHANGED <<nextId, entries, lastTrash>>

\* After the last file: println!("Trashed: ..."), Ok(()).
HandleTrashReturn(p) ==
    /\ pc[p] = "ret"
    /\ call[p].op = "handle_trash"
    /\ loc[p].index > Len(call[p].files)
    /\ loc' = [loc EXCEPT ![p].outcomes = OutcomesAfter(p), ![p].trashed = TrashedAfter(p)]
    /\ pc' = [pc EXCEPT ![p] = "handled"]
    /\ result' = [result EXCEPT ![p] = Ok(<<>>)]
    /\ UNCHANGED <<fs, nextId, call, fs0, entries, lastTrash>>

NextHandleTrash ==
    \E p \in Sequential :
        \/ HandleTrashNoMounts(p)
        \/ HandleTrashFile(p)
        \/ TrashWriteInfo(p)
        \/ TrashRename(p)
        \/ TrashCleanup(p)
        \/ HandleTrashReturn(p)

SpecHandleTrash == InitHandleTrash /\ [][NextHandleTrash]_vars

\* ------------------------------------------------------------------------
\* The specification of the pairing: trash_item, restore_item and
\* empty_single_trash_dir in any sequence, by one process
\* ------------------------------------------------------------------------

\* The items trashed: "/h/d/y", "/h/o/x" and "/h/o/y", by their absolute paths.
PairArgs == {Arg(DataDir, q) : q \in {HandleY, HandleX, HandleOtherY}}

\* The trash directory is in place and holds nothing: every entry of files/
\* has its record.
InitPairing ==
    \E y_is_link \in BOOLEAN, other_y_is_dir \in BOOLEAN :
        /\ fs = HandleTrashFs(y_is_link, other_y_is_dir)
        /\ nextId = 4
        /\ pc = [p \in Procs |-> "idle"]
        /\ call = [p \in Procs |-> NoCall]
        /\ loc = [p \in Procs |-> NoLoc]
        /\ result = [p \in Procs |-> NoResult]
        /\ fs0 = [p \in Procs |-> <<>>]
        /\ entries = [p \in Procs |-> {}]
        /\ lastTrash = NoTrash

\* empty_single_trash_dir(home trash)
PairEmpty(p) ==
    \E env \in HandleEnvs :
        LET done == empty_single_trash_dir(fs, HomeTrash.root_path, env)
        IN  /\ Quiet
            /\ call' = [call EXCEPT ![p] =
                           [op |-> "empty", cwd |-> DataDir, source_path |-> <<>>,
                            entry |-> NoEntry, mounts |-> <<>>]]
            /\ fs0' = [fs0 EXCEPT ![p] = fs]
            /\ fs' = done.fs
            /\ Returns(p, Err(done.kind, done.path))
            /\ lastTrash' = NoTrash
            /\ UNCHANGED <<nextId, loc, entries>>

NextPairing ==
    \E p \in Sequential :
        \/ TrashCall(p, PairArgs)
        \/ TrashWriteInfo(p)
        \/ TrashRename(p)
        \/ TrashCleanup(p)
        \/ Scan(p)
        \/ EndSession(p)
        \/ RestoreCall(p)
        \/ RestoreMkdir(p)
        \/ RestoreRename(p)
        \/ RestoreCleanup(p)
        \/ PairEmpty(p)
        \/ Return(p)

SpecPairing == InitPairing /\ [][NextPairing]_vars

\* ------------------------------------------------------------------------
\* The specification of discovery: an item is trashed where get_target_trash
\* says, then find_trash_entries scans the directories find_all_trash_dirs
\* returns, the mount table and the trash directories being the same
\* ------------------------------------------------------------------------

\* The items trashed: one of the home mount and one of the mount "/m".
DiscoverArgs ==
    {Arg(DataDir, Join(Docs, <<ItemName>>)), Arg(DataDir, Join(MountM, <<ItemName>>))}

\* The file system of the resolver, the home trash being a directory or not
\* there yet; with user_dir the shared trash holds the directory of the
\* user, "<shared>/<uid>". Behind a symbolic link at "/m/.Trash" that
\* directory is "/m/s/<uid>", which the system also answers for under the
\* name "/m/.Trash/<uid>".
DiscoverFs(home_kind, shared_kind, user_dir) ==
    LET shared == Join(MountM, <<SharedTrashName>>)
        user == IF user_dir /\ shared_kind \in {"dir", "sticky"}
                THEN (Join(shared, <<Digits(Uid)>>) :> DirNode(0))
                ELSE IF user_dir /\ shared_kind = "symlink"
                THEN (Join(SharedElsewhere, <<Digits(Uid)>>) :> DirNode(0))
                     @@ (Join(shared, <<Digits(Uid)>>) :> DirNode(0))
                ELSE <<>>
    IN  user @@ ResolveFs(home_kind, shared_kind)

\* trash is the TargetTrash the item went to.
InitDiscover ==
    \E a \in DiscoverArgs, mounts \in MountLists, home_kind \in {"absent", "dir"},
       shared_kind \in SharedTrashKinds, user_dir \in BOOLEAN :
        /\ fs = DiscoverFs(home_kind, shared_kind, user_dir)
        /\ nextId = 1
        /\ pc = [p \in Procs |-> "idle"]
        /\ call = [p \in Procs |->
                      IF p \in Sequential
                      THEN [op |-> "discover", cwd |-> a.cwd, source_path |-> a.source_path,
                            entry |-> NoEntry, mounts |-> mounts]
                      ELSE NoCall]
        /\ loc = [p \in Procs |->
                     [dest_path |-> <<>>, error |-> "", warned |-> FALSE,
                      trash |-> NoTargetTrash]]
        /\ result = [p \in Procs |-> NoResult]
        /\ fs0 = [p \in Procs |-> <<>>]
        /\ entries = [p \in Procs |-> {}]
        /\ lastTrash = NoTrash

\* One file of handle_move_to_trash, nothing being refused by the system:
\* get_target_trash, ensure_structure_exists, trash_item.
DiscoverTrash(p) ==
    \E date \in DeletionDates :
        LET c == call[p]
            src == Absolute(c.cwd, c.source_path)
            target == get_target_trash(fs, c.cwd, c.source_path, c.mounts,
                                       get_local_trash_path)
            ensured == ensure_structure_exists(fs, target.trash,
                                               [create |-> "ok", chmod |-> "ok"])
            found == find_available_dest_path(ensured.fs, c.source_path,
                                              files_path(target.trash))
            written == create_trash_info_file(ensured.fs, c.cwd, c.source_path, found.path,
                                              info_path(target.trash), date)
        IN  /\ pc[p] = "idle"
            /\ c.op = "discover"
            /\ fs0' = [fs0 EXCEPT ![p] = fs]
            /\ IF target.kind # "Ok"
               THEN /\ Returns(p, Err(target.kind, target.path))
                    /\ UNCHANGED <<fs, loc>>
               ELSE IF ensured.kind # "Ok"
               THEN /\ Returns(p, Err(ensured.kind, ensured.path))
                    /\ fs' = ensured.fs
                    /\ UNCHANGED loc
               ELSE IF ~found.ok \/ ~written.ok
               THEN /\ Returns(p, Err("GenericIo", <<>>))
                    /\ fs' = ensured.fs
                    /\ UNCHANGED loc
               ELSE IF RenameError(written.fs, src, found.path) # ""
               THEN /\ Returns(p, MoveError(RenameError(written.fs, src, found.path),
                                            c.source_path))
                    /\ fs' = CleanupInfoFile(written.fs, found.path,
                                             info_path(target.trash), FALSE).fs
                    /\ UNCHANGED loc
               ELSE /\ pc' = [pc EXCEPT ![p] = "trashed"]
                    /\ result' = [result EXCEPT ![p] = Ok(<<>>)]
                    /\ fs' = RenameApply(written.fs, src, found.path)
                    /\ loc' = [loc EXCEPT ![p].dest_path = found.path,
                                          ![p].trash = target.trash]
            /\ UNCHANGED <<nextId, call, entries, lastTrash>>

\* find_trash_entries(): find_all_trash_dirs()? and the scan of what it returns.
DiscoverScan(p) ==
    LET lines == [i \in 1..Len(call[p].mounts) |-> MountLine(call[p].mounts[i])]
        trash_dirs == find_all_trash_dirs(fs, lines, get_local_trash_path)
        found == find_trash_entries_in_dirs(fs, trash_dirs)
    IN  /\ pc[p] = "trashed"
        /\ result' = [result EXCEPT ![p] =
                          [kind |-> IF found.ok THEN "Ok" ELSE "Io", path |-> <<>>,
                           dirs |-> trash_dirs, entries |-> found.entries]]
        /\ pc' = [pc EXCEPT ![p] = "scanned"]
        /\ UNCHANGED <<fs, nextId, call, loc, fs0, entries, lastTrash>>

NextDiscover == \E p \in Sequential : DiscoverTrash(p) \/ DiscoverScan(p)

SpecDiscover == InitDiscover /\ [][NextDiscover]_vars

\* ------------------------------------------------------------------------
\* restore_item while another process creates the original path
\* ------------------------------------------------------------------------

\* The original paths: "/h/d/%41.t", and "/h/n/%41.t" whose directory is gone.
RaceOriginals == {Join(Docs, <<ItemName>>), Join(DataDir, <<<<110>>, ItemName>>)}

\* "<trash>/files/%41.t" and its record.
RaceTrashed == Join(files_path(HomeTrash), <<ItemName>>)

RaceInfo == determine_info_file_path(RaceTrashed, info_path(HomeTrash))

\* An item of the kind: a regular file, a directory, a symbolic link, a
\* directory that holds a file ("tree", the file being added by the caller).
RaceNode(kind, id) ==
    IF kind = "file" THEN FileNode(id, <<>>)
    ELSE IF kind = "symlink" THEN SymlinkNode(id, Other)
    ELSE DirNode(id)

\* The trashed item has the identity 1; an item that is at the original path
\* from the start has the identity 3.
RestoreRaceFs(kind, original, occupied) ==
    LET date == CHOOSE d \in DeletionDates : TRUE
        there == (RaceTrashed :> RaceNode(kind, 1))
                 @@ (RaceInfo :> FileNode(0, build_trash_info_content(original, date)))
        taken == IF occupied THEN (original :> FileNode(3, <<>>)) ELSE <<>>
    IN  [q \in DOMAIN InitialFs \cup DOMAIN there \cup DOMAIN taken |->
            IF q \in DOMAIN there THEN there[q]
            ELSE IF q \in DOMAIN taken THEN taken[q]
            ELSE InitialFs[q]]

\* The session of process 1 has scanned the trash; the other process has
\* done nothing yet.
InitRestoreRace ==
    \E kind \in {"file", "dir", "symlink"} : \E original \in RaceOriginals :
        \E occupied \in BOOLEAN :
            LET f == RestoreRaceFs(kind, original, occupied)
                found == find_trash_entries_in_dirs(f, <<HomeTrash.root_path>>)
            IN  /\ occupied => Parent(original) \in DOMAIN InitialFs
                /\ fs = f
                /\ nextId = 2
                /\ pc = [p \in Procs |-> "idle"]
                /\ call = [p \in Procs |-> NoCall]
                /\ loc = [p \in Procs |-> NoLoc]
                /\ result = [p \in Procs |-> NoResult]
                /\ fs0 = [p \in Procs |-> <<>>]
                /\ entries = [p \in Procs |->
                                 IF p \in Sequential
                                 THEN {found.entries[i] : i \in 1..Len(found.entries)}
                                 ELSE {}]
                /\ lastTrash = NoTrash

\* Another process creates an item at the original path (mkdir -p of its
\* directory, then an exclusive create): the item gets the identity 2.
OtherCreates ==
    \E kind \in {"file", "dir", "symlink", "tree"} :
        \E original \in {e.original_path : e \in entries[1]}
                        \cup {call[1].entry.original_path} :
            LET made == CreateDirAll(fs, Parent(original))
                new == (original :> RaceNode(kind, nextId))
                       @@ (IF kind = "tree"
                           THEN (Join(original, <<ItemName>>) :> FileNode(0, <<>>))
                           ELSE <<>>)
            IN  /\ nextId = 2
                /\ original # <<>>
                /\ original \notin DOMAIN fs
                /\ made.ok
                /\ fs' = [q \in DOMAIN made.fs \cup DOMAIN new |->
                             IF q \in DOMAIN new THEN new[q] ELSE made.fs[q]]
                /\ nextId' = nextId + 1
                /\ UNCHANGED <<pc, call, loc, result, fs0, entries, lastTrash>>

NextRestoreRace ==
    \/ OtherCreates
    \/ \E p \in Sequential :
        \/ RestoreCall(p)
        \/ RestoreMkdir(p)
        \/ RestoreRename(p)
        \/ RestoreCleanup(p)

SpecRestoreRace == InitRestoreRace /\ [][NextRestoreRace]_vars

\* ------------------------------------------------------------------------
\* handle_interactive_restore: the scan, the selection, the loop over the
\* selected entries
\* ------------------------------------------------------------------------

\* The original paths of the records: "/h/d/%41.t" and "/h/o/%41.t".
InteractiveOriginals == {Join(Docs, <<ItemName>>), Join(Other, <<ItemName>>)}

\* The names in files/: "a", "b", "c".
InteractiveName(i) == <<96 + i>>

InteractiveTrashed(i) == Join(files_path(HomeTrash), <<InteractiveName(i)>>)

\* A trashed item: a regular file, a directory, a symbolic link with the
\* relative target "b" (ln -s b <name>, where the item "b" was beside it).
\* The item of index i has the identity i.
InteractiveNode(kind, i) ==
    IF kind = "file" THEN FileNode(i, <<>>)
    ELSE IF kind = "dir" THEN DirNode(i)
    ELSE SymlinkNode(i, <<InteractiveName(2)>>)

\* The trash holds the records of the indices of originals and, for those of
\* present, the items.
InteractiveFs(kinds, originals, present) ==
    LET date == CHOOSE d \in DeletionDates : TRUE
        Info(i) == determine_info_file_path(InteractiveTrashed(i), info_path(HomeTrash))
        items == {InteractiveTrashed(i) : i \in present}
        records == {Info(i) : i \in DOMAIN originals}
        IndexOf(q) == CHOOSE i \in DOMAIN originals : q \in {InteractiveTrashed(i), Info(i)}
    IN  [q \in DOMAIN InitialFs \cup items \cup records |->
            IF q \in items THEN InteractiveNode(kinds[IndexOf(q)], IndexOf(q))
            ELSE IF q \in records
            THEN FileNode(0, build_trash_info_content(originals[IndexOf(q)], date))
            ELSE InitialFs[q]]

\* The trash is empty or holds three records: the first item is of any kind,
\* the second a file or a directory, the third a file that may be missing.
InitInteractive ==
    \E n \in {0, 3} :
        \E kinds \in [1..n -> {"file", "dir", "symlink"}] :
            \E originals \in [1..n -> InteractiveOriginals] :
                \E third \in BOOLEAN :
                    /\ n = 3 => /\ kinds[2] # "symlink" /\ kinds[3] = "file"
                                /\ originals[1] = Join(Docs, <<ItemName>>)
                    /\ n = 0 => third
                    /\ fs = InteractiveFs(kinds, originals,
                                          IF third THEN 1..n ELSE 1..n \ {3})
                    /\ nextId = 4
                    /\ pc = [p \in Procs |-> "idle"]
                    /\ call = [p \in Procs |->
                                  IF p \in Sequential
                                  THEN [op |-> "interactive", cwd |-> DataDir,
                                        source_path |-> <<>>, entry |-> NoEntry,
                                        mounts |-> <<>>]
                                  ELSE NoCall]
                    /\ loc = [p \in Procs |->
                                 [dest_path |-> <<>>, error |-> "", warned |-> FALSE,
                                  index |-> 1, skim |-> "none", selected |-> <<>>,
                                  attempts |-> <<>>, outcomes |-> <<>>, before |-> <<>>]]
                    /\ result = [p \in Procs |-> NoResult]
                    /\ fs0 = [p \in Procs |-> <<>>]
                    /\ entries = [p \in Procs |-> {}]
                    /\ lastTrash = NoTrash

\* output.selected_items: some of the n items sent to the selection, each at
\* most once, in any order.
Selections(n) ==
    {sel \in UNION {[1..k -> 1..n] : k \in 0..n} :
        \A i, j \in DOMAIN sel : sel[i] = sel[j] => i = j}

had_errors_of_last(outcomes) ==
    outcomes # <<>> /\ outcomes[Len(outcomes)] # "Ok"

\* had_errors: set by every restore_item that returned an error.
had_errors(outcomes) == \E i \in 1..Len(outcomes) : outcomes[i] # "Ok"

\* What the attempt that has just returned adds to the messages.
RestoredAfter(p) ==
    IF pc[p] = "ret" THEN Append(loc[p].outcomes, result[p].kind) ELSE loc[p].outcomes

\* find_trash_entries()?, the trash empty, Skim::run_with: skim is what the
\* selection ended with, before the file system when the command started.
InteractiveStart(p) ==
    LET found == find_trash_entries_in_dirs(fs, <<HomeTrash.root_path>>)
        Finish(r, skim) ==
            /\ pc' = [pc EXCEPT ![p] = "handled"]
            /\ result' = [result EXCEPT ![p] = r]
            /\ loc' = [loc EXCEPT ![p].skim = skim, ![p].before = fs]
    IN  /\ pc[p] = "idle"
        /\ call[p].op = "interactive"
        /\ IF ~found.ok THEN Finish(Err("Io", info_path(HomeTrash)), "none")
           ELSE IF found.entries = <<>> THEN Finish(Ok(<<>>), "none")
           ELSE \E aborted \in BOOLEAN : \E sel \in Selections(Len(found.entries)) :
                   IF aborted THEN Finish(Ok(<<>>), "aborted")
                   ELSE IF sel = <<>> THEN Finish(Ok(<<>>), "empty")
                   ELSE /\ pc' = [pc EXCEPT ![p] = "chosen"]
                        /\ loc' = [loc EXCEPT ![p].skim = "selected", ![p].before = fs,
                                       ![p].selected = [i \in DOMAIN sel |->
                                                           found.entries[sel[i]]]]
                        /\ UNCHANGED result
        /\ UNCHANGED <<fs, nextId, call, fs0, entries, lastTrash>>

\* The next selected item: restore_item(entry) up to its collision check.
InteractiveItem(p) ==
    LET e == loc[p].selected[loc[p].index]
    IN  /\ pc[p] \in {"chosen", "ret"}
        /\ call[p].op = "interactive"
        /\ loc[p].index <= Len(loc[p].selected)
        /\ call' = [call EXCEPT ![p].entry = e]
        /\ fs0' = [fs0 EXCEPT ![p] = fs]
        /\ loc' = [loc EXCEPT ![p].index = @ + 1,
                              ![p].attempts = Append(@, loc[p].index),
                              ![p].outcomes = RestoredAfter(p),
                              ![p].error = "", ![p].warned = FALSE]
        /\ IF PathExists(fs, e.original_path)
           THEN Returns(p, Err("RestoreCollision", e.original_path))
           ELSE pc' = [pc EXCEPT ![p] = "r_mkdir"] /\ UNCHANGED result
        /\ UNCHANGED <<fs, nextId, entries, lastTrash>>

\* After the last selected item: the messages are printed, Err(Ignorable)
\* when had_errors.
InteractiveReturn(p) ==
    /\ pc[p] = "ret"
    /\ call[p].op = "interactive"
    /\ loc[p].index > Len(loc[p].selected)
    /\ loc' = [loc EXCEPT ![p].outcomes = RestoredAfter(p)]
    /\ pc' = [pc EXCEPT ![p] = "handled"]
    /\ result' = [result EXCEPT ![p] =
                      IF had_errors(RestoredAfter(p)) THEN Err("Ignorable", <<>>)
                      ELSE Ok(<<>>)]
    /\ UNCHANGED <<fs, nextId, call, fs0, entries, lastTrash>>

NextInteractive ==
    \E p \in Sequential :
        \/ InteractiveStart(p)
        \/ InteractiveItem(p)
        \/ RestoreMkdir(p)
        \/ RestoreRename(p)
        \/ RestoreCleanup(p)
        \/ InteractiveReturn(p)

SpecInteractive == InitInteractive /\ [][NextInteractive]_vars

\* ------------------------------------------------------------------------
\* Properties of trash_item
\* ------------------------------------------------------------------------

\* The source of the call of process p, as an absolute path.
SourceOf(p) == Absolute(call[p].cwd, call[p].source_path)

\* The info record of the destination chosen by the call of process p.
InfoOf(p) == determine_info_file_path(loc[p].dest_path, info_path(HomeTrash))

\* What is in files/.
FilesContent(f) ==
    [q \in {x \in DOMAIN f : PathStartsWith(x, files_path(HomeTrash))} |-> f[q]]

\* C1: in every state of a trash_item call, the states between its steps and
\* the states after a crash included, the item is still at its original path,
\* or it is in files/ under the chosen name and its info record exists: the
\* item is never in files/ without its record.
C1_RecordBeforeMove ==
    \A p \in Procs :
        (call[p].op = "trash" /\ SourceOf(p) \in DOMAIN fs0[p]) =>
            LET item == fs0[p][SourceOf(p)]
                dest_path == loc[p].dest_path
            IN  \/ SourceOf(p) \in DOMAIN fs /\ fs[SourceOf(p)] = item
                \/ /\ dest_path \in DOMAIN fs
                   /\ fs[dest_path] = item
                   /\ InfoOf(p) \in DOMAIN fs

\* A trash_item call has moved the item into files/ and its record is there.
C1_Moved ==
    \E p \in Procs :
        /\ call[p].op = "trash"
        /\ pc[p] = "ret"
        /\ result[p].kind = "Ok"
        /\ SourceOf(p) \notin DOMAIN fs
        /\ fs[loc[p].dest_path] = fs0[p][SourceOf(p)]
        /\ InfoOf(p) \in DOMAIN fs

\* C2: when the move of trash_item fails, then at its return the source is
\* still at its original path, files/ is as it was at the call, the info
\* record is deleted when its deletion succeeds, and an error is returned.
C2_FailedMoveRollsBack ==
    \A p \in Procs :
        (call[p].op = "trash" /\ pc[p] = "ret" /\ loc[p].error # "") =>
            /\ SourceOf(p) \in DOMAIN fs
            /\ fs[SourceOf(p)] = fs0[p][SourceOf(p)]
            /\ FilesContent(fs) = FilesContent(fs0[p])
            /\ ~loc[p].warned => InfoOf(p) \notin DOMAIN fs
            /\ result[p].kind \in {"Io", "CrossDeviceMove"}

\* The move has failed, the record has been deleted and the error returned.
C2_RolledBack ==
    \E p \in Procs :
        /\ call[p].op = "trash"
        /\ pc[p] = "ret"
        /\ loc[p].error = "EXDEV"
        /\ ~loc[p].warned
        /\ result[p].kind = "CrossDeviceMove"
        /\ InfoOf(p) \notin DOMAIN fs

\* C3: after a successful trash_item the source path no longer exists,
\* files/<dest> holds the item, info/<dest>.trashinfo exists with a Path field
\* equal to the percent-encoded absolute path of the source, and nothing else
\* in the file system was created, changed or removed.
C3_SuccessIsTwoWrites ==
    \A p \in Procs :
        (call[p].op = "trash" /\ pc[p] = "ret" /\ result[p].kind = "Ok") =>
            LET dest_path == loc[p].dest_path
                written == {SourceOf(p), dest_path, InfoOf(p)}
            IN  /\ SourceOf(p) \notin DOMAIN fs
                /\ dest_path \in DOMAIN fs
                /\ fs[dest_path] = fs0[p][SourceOf(p)]
                /\ InfoOf(p) \in DOMAIN fs
                /\ fs[InfoOf(p)].kind = "file"
                /\ FirstCapture(TRASH_INFO_PATH_KEY, Lines(fs[InfoOf(p)].content))
                       = [some |-> TRUE,
                          value |-> trash_spec_url_encode(PathToString(SourceOf(p)))]
                /\ DOMAIN fs \ written = DOMAIN fs0[p] \ written
                /\ \A q \in DOMAIN fs \ written : fs[q] = fs0[p][q]

\* ------------------------------------------------------------------------
\* Properties of restore_item
\* ------------------------------------------------------------------------

\* C4: round trip. A regular file is trashed and the scanned entry for it is
\* restored at once, nothing failing in the restore: the same item is back at
\* the original path, neither files/<name> nor info/<name>.trashinfo is left,
\* and the trash directory holds what it held before the trash.
C4_RoundTrip ==
    \A p \in Procs :
        LET entry == call[p].entry IN
        (/\ call[p].op = "restore"
         /\ pc[p] = "ret"
         /\ lastTrash.dest_path = entry.trashed_path
         /\ entry.trashed_path \in DOMAIN fs0[p]
         /\ fs0[p][entry.trashed_path].kind = "file"
         /\ result[p].kind # "Io"
         /\ ~loc[p].warned) =>
            /\ result[p] = Ok(lastTrash.source)
            /\ lastTrash.source \in DOMAIN fs
            /\ fs[lastTrash.source] = fs0[p][entry.trashed_path]
            /\ entry.trashed_path \notin DOMAIN fs
            /\ entry.info_path \notin DOMAIN fs
            /\ TrashContent(fs) = lastTrash.before

\* C5: restore_item never overwrites. Whenever something is at
\* entry.original_path when restore_item is called, it fails with
\* RestoreCollision and the trashed item, its info record and the occupant of
\* the original path are as they were (stated for the calls that find the
\* trashed item in files/ and in which the system refuses no move).
C5_NeverOverwrites ==
    \A p \in Procs :
        (/\ call[p].op = "restore"
         /\ pc[p] = "ret"
         /\ loc[p].error = ""
         /\ call[p].entry.trashed_path \in DOMAIN fs0[p]
         /\ call[p].entry.original_path \in DOMAIN fs0[p]) =>
            /\ result[p] = Err("RestoreCollision", call[p].entry.original_path)
            /\ fs = fs0[p]

\* The states at the return of a restore_item call that found the original
\* path free and no trashed item.
MissingItemReturn(p) ==
    /\ call[p].op = "restore"
    /\ pc[p] = "ret"
    /\ call[p].entry.original_path \notin DOMAIN fs0[p]
    /\ call[p].entry.trashed_path \notin DOMAIN fs0[p]

\* Nothing has been moved or deleted since the call of process p.
NothingMoved(p) == \A q \in DOMAIN fs0[p] : q \in DOMAIN fs /\ fs[q] = fs0[p][q]

\* C6 as stated: if the original path is free and the trashed item is
\* missing, restore_item fails with TrashedItemNotFound carrying the trashed
\* path; nothing is moved and the info record is not deleted.
C6_MissingItemAsStated ==
    \A p \in Procs :
        MissingItemReturn(p) =>
            /\ result[p] = Err("TrashedItemNotFound", call[p].entry.trashed_path)
            /\ NothingMoved(p)
            /\ call[p].entry.info_path \in DOMAIN fs

\* C6, amended: if the original path is free and the trashed item is
\* missing, restore_item fails with TrashedItemNotFound carrying the trashed
\* path, unless the parent directory of the original path could not be
\* created, in which case it fails with the Io error of that directory; in
\* both cases nothing is moved and the info record is not deleted.
C6_MissingItem ==
    \A p \in Procs :
        MissingItemReturn(p) =>
            /\ \/ result[p] = Err("TrashedItemNotFound", call[p].entry.trashed_path)
               \/ /\ result[p] = Err("Io", Parent(call[p].entry.original_path))
                  /\ ~PathIsDir(fs, Parent(call[p].entry.original_path))
            /\ NothingMoved(p)
            /\ call[p].entry.info_path \in DOMAIN fs

\* A restore_item call has found the original path free and the trashed item
\* missing, and has returned TrashedItemNotFound.
C6_NotFound ==
    \E p \in Procs :
        /\ MissingItemReturn(p)
        /\ result[p] = Err("TrashedItemNotFound", call[p].entry.trashed_path)

\* C7: once the move back has succeeded, restore_item returns Ok with the
\* restored path whether or not the deletion of the info record succeeds; a
\* failed deletion leaves the item restored, files/<name> gone and the info
\* record present.
C7_CleanupIsBestEffort ==
    \A p \in Procs :
        LET entry == call[p].entry IN
        (/\ call[p].op = "restore"
         /\ pc[p] = "ret"
         /\ entry.trashed_path \in DOMAIN fs0[p]
         /\ entry.trashed_path \notin DOMAIN fs) =>
            /\ result[p] = Ok(entry.original_path)
            /\ fs[entry.original_path] = fs0[p][entry.trashed_path]
            /\ loc[p].warned => entry.info_path \in DOMAIN fs

\* A restore_item call has moved the item back, has failed to delete the info
\* record and has returned Ok.
C7_WarnedOk ==
    \E p \in Procs :
        /\ call[p].op = "restore"
        /\ pc[p] = "ret"
        /\ loc[p].warned
        /\ result[p] = Ok(call[p].entry.original_path)
        /\ call[p].entry.trashed_path \notin DOMAIN fs
        /\ call[p].entry.info_path \in DOMAIN fs

\* ------------------------------------------------------------------------
\* Properties of find_available_dest_path
\* ------------------------------------------------------------------------

\* files/<name>
InFiles(name) == Join(files_path(HomeTrash), <<name>>)

\* <base>.<n><ext>, the name being split at its first dot.
Numbered(name, n) ==
    LET dot == Find(name, 46)
    IN  SubSeq(name, 1, dot - 1) \o <<46>> \o Digits(n) \o SubSeq(name, dot, Len(name))

\* C8: find_available_dest_path equals the reference function. If files/<name>
\* does not exist the result is files/<name>; otherwise, for a name whose
\* first dot is not its first character, the result is files/<base>.<n><ext>
\* for the smallest n >= 2 whose candidate is not in files/. The result never
\* names an existing entry of files/.
C8_ReferenceFunction ==
    \A p \in Procs :
        pc[p] = "found" =>
            LET name == FileName(call[p].source_path)
                dest_path == loc[p].dest_path
            IN  /\ InFiles(name) \notin DOMAIN fs => dest_path = InFiles(name)
                /\ (InFiles(name) \in DOMAIN fs /\ Find(name, 46) > 1) =>
                       \E n \in 2..(MaxExisting + 2) :
                           /\ dest_path = InFiles(Numbered(name, n))
                           /\ \A m \in 2..(n - 1) : InFiles(Numbered(name, m)) \in DOMAIN fs
                /\ dest_path \notin DOMAIN fs

\* C9: for a colliding name that has no dot, or whose only dot is its first
\* character, the candidate chosen is the full name followed by ".<n>", for
\* the first n >= 2 that does not exist.
C9_CounterAppended ==
    \A p \in Procs :
        LET name == FileName(call[p].source_path) IN
        (/\ pc[p] = "found"
         /\ PathExists(fs, InFiles(name))
         /\ Find(name, 46) = 0 \/ (name[1] = 46 /\ Find(Tail(name), 46) = 0)) =>
            \E n \in 2..(MaxExisting + 2) :
                /\ loc[p].dest_path = InFiles(name \o <<46>> \o Digits(n))
                /\ ~PathExists(fs, loc[p].dest_path)
                /\ \A m \in 2..(n - 1) :
                       PathExists(fs, InFiles(name \o <<46>> \o Digits(m)))

\* The dotfile ".c" collides once and ".c.2" is chosen.
C9_Dotfile ==
    \E p \in Procs :
        /\ pc[p] = "found"
        /\ call[p].source_path = <<<<46, 99>>>>
        /\ PathExists(fs, InFiles(<<46, 99>>))
        /\ loc[p].dest_path = InFiles(<<46, 99, 46, 50>>)

\* ------------------------------------------------------------------------
\* Properties of the check of the source
\* ------------------------------------------------------------------------

\* C10: for every existing source that lies within the trash root, trash_item
\* fails with AlreadyInTrash, writes no info record and moves nothing; a
\* source outside the root, an ancestor of the root included, is not
\* rejected by this check.
C10_SourceInTrash ==
    \A p \in Procs :
        (call[p].op = "trash" /\ PathExists(fs0[p], SourceOf(p))) =>
            IF PathStartsWith(SourceOf(p), HomeTrash.root_path)
            THEN /\ pc[p] = "ret"
                 /\ result[p].kind = "AlreadyInTrash"
                 /\ fs = fs0[p]
            ELSE result[p].kind # "AlreadyInTrash"

\* ------------------------------------------------------------------------
\* Properties of get_target_trash
\* ------------------------------------------------------------------------

\* The mount list of the call of process p, as a set.
MountsOf(p) == {call[p].mounts[i] : i \in 1..Len(call[p].mounts)}

\* The path is on mount point m of the set: m is the deepest mount point at
\* or above the path.
OnMount(path, m, mounts) ==
    /\ m \in mounts
    /\ PathStartsWith(path, m)
    /\ \A m2 \in mounts : PathStartsWith(path, m2) => Len(m2) <= Len(m)

\* The canonical path of the target of the call of process p.
TargetOf(p) == Canonicalize(fs, SourceOf(p))

\* The call of process p has returned and its target exists.
Resolved(p) == pc[p] = "resolved" /\ TargetOf(p) # <<>>

\* The target of process p and the home trash are on one mount point.
OnHomeMount(p) ==
    \E m \in MountsOf(p) :
        OnMount(TargetOf(p), m, MountsOf(p)) /\ OnMount(get_local_trash_path, m, MountsOf(p))

\* C11 as stated: for every target on the mount point of the home trash and
\* every mount list, get_target_trash returns the Home trash at the home
\* trash path.
C11_HomeAsStated ==
    \A p \in Procs :
        (Resolved(p) /\ OnHomeMount(p)) =>
            result[p] = TrashOk(TargetTrash(get_local_trash_path, "Home"))

\* C11, amended: for every target on the mount point of the home trash and
\* every mount list, get_target_trash returns the Home trash at the home
\* trash path, provided the home trash root is not a symbolic link.
C11_Home ==
    \A p \in Procs :
        (/\ Resolved(p)
         /\ OnHomeMount(p)
         /\ ~(get_local_trash_path \in DOMAIN fs
              /\ fs[get_local_trash_path].kind = "symlink")) =>
            result[p] = TrashOk(TargetTrash(get_local_trash_path, "Home"))

\* A target on the home mount, "/h" being the deepest of several mount
\* points, has been resolved to the Home trash.
C11_HomeChosen ==
    \E p \in Procs :
        /\ Resolved(p)
        /\ OnMount(TargetOf(p), DataDir, MountsOf(p))
        /\ <<RootDir>> \in MountsOf(p)
        /\ result[p].kind = "Ok"
        /\ result[p].trash.trash_type = "Home"

\* C12: for a target on a mount point m different from the mount point of
\* the home trash, get_target_trash returns TopdirSharedUser at
\* m/.Trash/<uid> if and only if m/.Trash exists, is a directory itself (not
\* a symbolic link) and has the sticky bit; in every other case it returns
\* TopdirPrivate at m/.Trash-<uid>.
C12_TopDirectory ==
    \A p \in Procs : \A m \in MountsOf(p) : \A h \in MountsOf(p) :
        (/\ Resolved(p)
         /\ OnMount(TargetOf(p), m, MountsOf(p))
         /\ OnMount(get_local_trash_path, h, MountsOf(p))
         /\ m # h) =>
            LET shared == Join(m, <<SharedTrashName>>)
                valid == /\ shared \in DOMAIN fs
                         /\ fs[shared].kind = "dir"
                         /\ (fs[shared].mode \div 512) % 2 = 1
            IN  IF valid
                THEN result[p] = TrashOk(TargetTrash(Join(shared, <<Digits(Uid)>>),
                                                     "TopdirSharedUser"))
                ELSE result[p] = TrashOk(TargetTrash(
                                     Join(m, <<SharedTrashName \o <<45>> \o Digits(Uid)>>),
                                     "TopdirPrivate"))

\* A target on "/m", where "/m/.Trash" is a sticky directory, has been
\* resolved to the shared trash of the user.
C12_SharedChosen ==
    \E p \in Procs :
        /\ Resolved(p)
        /\ OnMount(TargetOf(p), MountM, MountsOf(p))
        /\ OnMount(get_local_trash_path, DataDir, MountsOf(p))
        /\ result[p].kind = "Ok"
        /\ result[p].trash.trash_type = "TopdirSharedUser"

\* C13: get_target_trash never returns a Home location whose root is a
\* symbolic link; when the target is on the mount point of the home trash and
\* the home trash root is a symbolic link, it fails with SymbolicLink.
C13_HomeNotSymlink ==
    \A p \in Procs :
        pc[p] = "resolved" =>
            /\ (result[p].kind = "Ok" /\ result[p].trash.trash_type = "Home") =>
                   ~(result[p].trash.root_path \in DOMAIN fs
                     /\ fs[result[p].trash.root_path].kind = "symlink")
            /\ (/\ TargetOf(p) # <<>>
                /\ OnHomeMount(p)
                /\ get_local_trash_path \in DOMAIN fs
                /\ fs[get_local_trash_path].kind = "symlink") =>
                   result[p] = TrashErr("SymbolicLink", get_local_trash_path)

\* The home trash root is a symbolic link and the call has failed with
\* SymbolicLink.
C13_LinkRefused ==
    \E p \in Procs :
        /\ Resolved(p)
        /\ OnHomeMount(p)
        /\ fs[get_local_trash_path].kind = "symlink"
        /\ result[p].kind = "SymbolicLink"

\* C14: if no entry of the mount list is a prefix of the canonical target
\* path, get_target_trash fails with a message error and returns no trash
\* location, also when the mount point of the home trash is undetermined.
C14_NoMountPoint ==
    \A p \in Procs :
        (Resolved(p) /\ \A m \in MountsOf(p) : ~PathStartsWith(TargetOf(p), m)) =>
            /\ result[p].kind = "Message"
            /\ result[p].trash = NoTargetTrash

\* Neither the target nor the home trash has a mount point in the list, and
\* the call has failed with the message error.
C14_Undetermined ==
    \E p \in Procs :
        /\ Resolved(p)
        /\ \A m \in MountsOf(p) :
               ~PathStartsWith(TargetOf(p), m) /\ ~PathStartsWith(get_local_trash_path, m)
        /\ result[p].kind = "Message"

\* ------------------------------------------------------------------------
\* Properties of find_all_trash_dirs
\* ------------------------------------------------------------------------

\* The trash roots of the user that are present: the home trash when it is a
\* directory and, on each mount point, <mount>/.Trash/<uid> under a sticky
\* directory .Trash and <mount>/.Trash-<uid>.
PresentTrashRoots(f, mounts) ==
    {q \in {get_local_trash_path} : q \in DOMAIN f /\ f[q].kind = "dir"}
    \cup {Join(m, <<SharedTrashName, Digits(Uid)>>) : m \in
            {x \in mounts :
                /\ Join(x, <<SharedTrashName>>) \in DOMAIN f
                /\ f[Join(x, <<SharedTrashName>>)].kind = "dir"
                /\ (f[Join(x, <<SharedTrashName>>)].mode \div 512) % 2 = 1
                /\ Join(x, <<SharedTrashName, Digits(Uid)>>) \in DOMAIN f
                /\ f[Join(x, <<SharedTrashName, Digits(Uid)>>)].kind = "dir"}}
    \cup {Join(m, <<SharedTrashName \o <<45>> \o Digits(Uid)>>) : m \in
            {x \in mounts :
                /\ Join(x, <<SharedTrashName \o <<45>> \o Digits(Uid)>>) \in DOMAIN f
                /\ f[Join(x, <<SharedTrashName \o <<45>> \o Digits(Uid)>>)].kind = "dir"}}

\* C15: find_all_trash_dirs returns every trash root of the user that is
\* present (the home trash if it is a directory and, for each mount point of
\* the mount table, each existing trash of the user on it) and nothing else,
\* and it creates or modifies nothing.
C15_EveryTrashRoot ==
    \A p \in Procs :
        pc[p] = "listed" =>
            /\ {result[p].dirs[i] : i \in 1..Len(result[p].dirs)}
                   = PresentTrashRoots(fs, MountsOf(p))
            /\ fs = fs0[p]

\* ------------------------------------------------------------------------
\* Properties of ensure_structure_exists
\* ------------------------------------------------------------------------

\* The path is a directory of the file system.
IsDirectory(f, q) == q \in DOMAIN f /\ f[q].kind = "dir"

\* C16: after a successful call of ensure_structure_exists the trash root,
\* root/files and root/info exist as directories and a Home root has mode
\* 0700; a second call on that state succeeds and changes nothing.
C16_LayoutEstablished ==
    \A p \in Procs :
        /\ (pc[p] \in {"ensured", "again"} /\ result[p].kind = "Ok") =>
               /\ IsDirectory(fs, call[p].trash.root_path)
               /\ IsDirectory(fs, files_path(call[p].trash))
               /\ IsDirectory(fs, info_path(call[p].trash))
               /\ call[p].trash.trash_type = "Home" =>
                      fs[call[p].trash.root_path].mode = 448
        /\ (pc[p] = "again" /\ result[p].previous = "Ok") =>
               result[p].kind = "Ok" /\ fs = fs0[p]

\* ------------------------------------------------------------------------
\* Properties of find_trash_entries_in_dirs
\* ------------------------------------------------------------------------

\* The files of info/ of the scanned trash directories of process p.
InfoFiles(f, p) ==
    {q \in DOMAIN f : \E i \in 1..Len(call[p].trash_dirs) :
        Len(q) > 1 /\ Parent(q) = Join(call[p].trash_dirs[i], <<TRASH_INFO_DIR_NAME>>)}

\* A line "<key>=..." is among the lines of the content.
HasKeyLine(content, key) ==
    \E i \in 1..Len(Lines(content)) : StartsWithStr(Lines(content)[i], key \o <<61>>)

NamedTrashInfo(q) == EndsWithStr(FileName(q), TRASH_INFO_SUFFIX)

\* The info/ files the claim is about: a regular file named *.trashinfo whose
\* text lacks the Path= line or the DeletionDate= line, and a file whose name
\* does not end in .trashinfo.
Incomplete(f, q) ==
    \/ ~NamedTrashInfo(q)
    \/ /\ f[q].kind = "file"
       /\ Utf8ValidFrom(f[q].content, 1)
       /\ ~(HasKeyLine(f[q].content, TRASH_INFO_PATH_KEY)
            /\ HasKeyLine(f[q].content, TRASH_INFO_DATE_KEY))

\* files/<name> for the record info/<name>.trashinfo.
TrashedOf(q) ==
    Join(Join(Parent(Parent(q)), <<TRASH_FILES_DIR_NAME>>),
         <<SubSeq(FileName(q), 1, Len(FileName(q)) - Len(TRASH_INFO_SUFFIX))>>)

\* The candidates of the complete records of the scanned directories: the
\* record is a file named *.trashinfo that holds the text written for the
\* candidate's original path and date, and the candidate names the record
\* and the item of files/ the record is named after.
ValidCandidates(f, p) ==
    {e \in {TrashEntry(TrashedOf(q), q, OriginalOf(RecordNames[j]), TheDate) :
               q \in {x \in InfoFiles(f, p) : NamedTrashInfo(x)}, j \in 1..2} :
        /\ f[e.info_path].kind = "file"
        /\ f[e.info_path].content
              = build_trash_info_content(e.original_path, e.deletion_date)}

Returned(p) == {result[p].entries[i] : i \in 1..Len(result[p].entries)}

\* The file system without the incomplete files of the scanned directories.
WithoutIncomplete(f, p) ==
    [q \in {x \in DOMAIN f : ~(x \in InfoFiles(f, p) /\ Incomplete(f, x))} |-> f[q]]

\* C17: a record without its Path= line or without its DeletionDate= line,
\* and a file of info/ whose name does not end in .trashinfo, produce no
\* candidate and do not abort the scan: the scan returns what it returns
\* without them, no returned candidate is theirs, and a scan that returns
\* returns the candidates of all the complete records of all the directories.
C17_IncompleteSkipped ==
    \A p \in Procs :
        pc[p] = "scanned" =>
            LET without == find_trash_entries_in_dirs(WithoutIncomplete(fs, p),
                                                      call[p].trash_dirs)
            IN  /\ (result[p].kind = "Ok") = without.ok
                /\ Returned(p) = {without.entries[i] : i \in 1..Len(without.entries)}
                /\ \A e \in Returned(p) : ~Incomplete(fs, e.info_path)
                /\ result[p].kind = "Ok" => Returned(p) = ValidCandidates(fs, p)

\* A scan over a directory that holds an incomplete record, a file with
\* another name or both next to a complete record, the other directory
\* holding a complete record too, has returned both candidates.
C17_ValidReturned ==
    \E p \in Procs :
        /\ pc[p] = "scanned"
        /\ result[p].kind = "Ok"
        /\ \E q \in InfoFiles(fs, p) : Incomplete(fs, q) /\ NamedTrashInfo(q)
        /\ \E q \in InfoFiles(fs, p) : ~NamedTrashInfo(q)
        /\ \E e1, e2 \in Returned(p) :
              /\ Parent(e1.info_path) # Parent(e2.info_path)
              /\ \E q \in InfoFiles(fs, p) :
                    Incomplete(fs, q) /\ Parent(q) = Parent(e1.info_path)

\* C18: a corrupt record of any kind (a missing field, a Path that does not
\* decode to UTF-8, content that is not text, an entry that cannot be read)
\* is skipped: the scan never returns an error and always returns the
\* candidates of the complete records.
C18_CorruptNeverAborts ==
    \A p \in Procs :
        pc[p] = "scanned" =>
            /\ result[p].kind = "Ok"
            /\ Returned(p) = ValidCandidates(fs, p)

\* ------------------------------------------------------------------------
\* Properties of the percent encoding
\* ------------------------------------------------------------------------

\* How many times the byte occurs in the text.
Occurrences(t, b) == Cardinality({i \in 1..Len(t) : t[i] = b})

\* '/', the alphanumerics and - _ . ~
Unreserved ==
    {47, 45, 95, 46, 126} \cup (48..57) \cup (65..90) \cup (97..122)

\* C19: trash_spec_url_decode(trash_spec_url_encode(p)) = p for every text
\* p; the encoding escapes no '/' (the encoded text has as many '/' as p and
\* no "%2F"), and a text made of '/', alphanumerics and - _ . ~ is returned
\* unchanged.
C19_RoundTrip ==
    \A p \in Procs :
        /\ pc[p] = "encoded" =>
               /\ Occurrences(result[p].text, 47) = Occurrences(call[p].text, 47)
               /\ \A i \in 1..Len(result[p].text) - 2 :
                      SubSeq(result[p].text, i, i + 2) # <<37, 50, 70>>
               /\ (\A i \in 1..Len(call[p].text) : call[p].text[i] \in Unreserved) =>
                      result[p].text = call[p].text
        /\ pc[p] = "decoded" =>
               result[p].kind = "Ok" /\ result[p].text = call[p].text

\* A text with a '%', a '/' and a character that is not ASCII has been
\* encoded to another text and decoded.
C19_EscapedAndBack ==
    \E p \in Procs :
        /\ pc[p] = "decoded"
        /\ \E i, j, k \in 1..Len(call[p].text) :
              call[p].text[i] = 37 /\ call[p].text[j] = 47 /\ call[p].text[k] >= 128
        /\ result[p].encoded # call[p].text
        /\ result[p].text = call[p].text

\* ------------------------------------------------------------------------
\* Properties of empty_single_trash_dir
\* ------------------------------------------------------------------------

\* The path is a directory and nothing is below it.
IsEmptyDirectory(f, q) ==
    /\ q \in DOMAIN f
    /\ f[q].kind = "dir"
    /\ \A x \in DOMAIN f : PathStartsWith(x, q) => x = q

\* C20: after empty_single_trash_dir succeeds, root/files and root/info
\* exist and are empty whatever they held before; a second application
\* succeeds and leaves the same state.
C20_EmptiedAndIdempotent ==
    \A p \in Procs :
        /\ (pc[p] \in {"emptied", "again"} /\ result[p].kind = "Ok") =>
               /\ IsEmptyDirectory(fs, Join(call[p].trash_root, <<TRASH_FILES_DIR_NAME>>))
               /\ IsEmptyDirectory(fs, Join(call[p].trash_root, <<TRASH_INFO_DIR_NAME>>))
        /\ (pc[p] = "again" /\ result[p].previous = "Ok") =>
               result[p].kind = "Ok" /\ fs = fs0[p]

\* The call has succeeded on a root whose files/ held items, a directory
\* among them, and whose info/ was missing or held records.
C20_ItemsRemoved ==
    \E p \in Procs :
        /\ pc[p] = "emptied"
        /\ result[p].kind = "Ok"
        /\ \E x \in DOMAIN fs0[p] :
              /\ Len(x) > Len(call[p].trash_root) + 2
              /\ PathStartsWith(x, Join(call[p].trash_root, <<TRASH_FILES_DIR_NAME>>))
        /\ \/ Join(call[p].trash_root, <<TRASH_INFO_DIR_NAME>>) \notin DOMAIN fs0[p]
           \/ \E x \in DOMAIN fs0[p] :
                 /\ x # Join(call[p].trash_root, <<TRASH_INFO_DIR_NAME>>)
                 /\ PathStartsWith(x, Join(call[p].trash_root, <<TRASH_INFO_DIR_NAME>>))
        /\ fs # fs0[p]

\* What the file system holds at and below the path.
TreeAt(f, q) == [x \in Subtree(f, q) |-> f[x]]

\* C21: emptying one trash directory is atomic: either the call returns Ok
\* with files/ and info/ both cleared and recreated, or it returns an error
\* and neither has been cleared; in no outcome is files/ emptied while info/
\* still holds its records.
C21_AllOrNothing ==
    \A p \in Procs :
        pc[p] = "emptied" =>
            LET files == Join(call[p].trash_root, <<TRASH_FILES_DIR_NAME>>)
                info == Join(call[p].trash_root, <<TRASH_INFO_DIR_NAME>>)
            IN  /\ result[p].kind = "Ok" =>
                       IsEmptyDirectory(fs, files) /\ IsEmptyDirectory(fs, info)
                /\ result[p].kind # "Ok" =>
                       /\ TreeAt(fs, files) = TreeAt(fs0[p], files)
                       /\ TreeAt(fs, info) = TreeAt(fs0[p], info)
                /\ ~(/\ HasChildren(fs0[p], files)
                     /\ ~HasChildren(fs, files)
                     /\ HasChildren(fs, info))

\* ------------------------------------------------------------------------
\* Properties of confirm_input
\* ------------------------------------------------------------------------

\* The i-th line read: the line of the input, the empty line past its end.
LineRead(p, i) == IF i <= Len(call[p].input) THEN call[p].input[i] ELSE <<>>

\* C22: confirm_input returns true for an empty line, "y" or "yes" and false
\* for "n" or "no", whatever the case and the white space around; for any
\* other line of text it has not returned, has written the prompt again and
\* reads the next line: the prompt is written once for each line read.
C22_AnswerOfLastLine ==
    \A p \in Procs :
        pc[p] \in {"asking", "confirmed"} =>
            /\ loc[p].prompts = loc[p].read
            /\ \A i \in 1..(loc[p].read - 1) : LineRead(p, i) \in OtherLines
            /\ pc[p] = "asking" => LineRead(p, loc[p].read) \in OtherLines
            /\ (pc[p] = "confirmed" /\ LineRead(p, loc[p].read) # BinaryLine) =>
                   /\ result[p].kind = "Ok"
                   /\ result[p].value
                        <=> LineRead(p, loc[p].read) \in YesLines \cup {<<>>}
                   /\ ~result[p].value <=> LineRead(p, loc[p].read) \in NoLines

\* The function has returned true for "Y" or "YES" after a line that was no
\* answer: two prompts were written, two lines read.
C22_AskedAgain ==
    \E p \in Procs :
        /\ pc[p] = "confirmed"
        /\ result[p].kind = "Ok" /\ result[p].value
        /\ loc[p].read = 2 /\ loc[p].prompts = 2
        /\ LineRead(p, 1) \in OtherLines
        /\ LineRead(p, 2) \in {<<89, 10>>, <<89, 69, 83, 10>>}

\* ------------------------------------------------------------------------
\* Properties of two concurrent trash_item
\* ------------------------------------------------------------------------

\* The source of process p is in files/ under the name and info/ holds the
\* record of that name with the path of the source.
TrashedAs(p, name) ==
    LET item == Join(files_path(HomeTrash), <<name>>)
        record == Join(info_path(HomeTrash), <<name \o TRASH_INFO_SUFFIX>>)
    IN  /\ item \in DOMAIN fs /\ fs[item].id = p
        /\ record \in DOMAIN fs
        /\ \E d \in DeletionDates :
              fs[record].content = build_trash_info_content(RaceSource(p), d)

\* The names of the entries of files/.
FilesNames == {FileName(q) : q \in {x \in DOMAIN fs : Parent(x) = files_path(HomeTrash)}}

\* C23: two processes run trash_item at once on two sources of one file name
\* for one trash directory: under every interleaving, once both have
\* returned, each source is in files/ under a name of its own with its own
\* record and its caller has Ok, or it is where it was and its caller has an
\* error.
C23_NoItemLost ==
    (\A p \in Procs : pc[p] = "ret") =>
        \A p \in Procs :
            \/ /\ result[p].kind = "Ok"
               /\ \E name \in FilesNames : TrashedAs(p, name)
            \/ /\ result[p].kind # "Ok"
               /\ RaceSource(p) \in DOMAIN fs
               /\ fs[RaceSource(p)].id = p

\* ------------------------------------------------------------------------
\* Properties of a failed move
\* ------------------------------------------------------------------------

\* C24: when the rename of trash_item has failed, the call returns
\* CrossDeviceMove with the source path exactly when the error of the system
\* is the cross-device error, and Io with the source path otherwise; nothing
\* was copied and nothing retried: the source is where it was, as it was,
\* and files/ holds what it held.
C24_MoveErrorReported ==
    \A p \in Procs :
        (pc[p] = "ret" /\ call[p].op = "trash" /\ loc[p].error # "") =>
            /\ result[p].kind = "CrossDeviceMove" <=> loc[p].error = "EXDEV"
            /\ result[p].kind \in {"CrossDeviceMove", "Io"}
            /\ result[p].path = call[p].source_path
            /\ TreeAt(fs, SourceOf(p)) = TreeAt(fs0[p], SourceOf(p))
            /\ TreeAt(fs, files_path(HomeTrash)) = TreeAt(fs0[p], files_path(HomeTrash))

\* A move has failed with the cross-device error and the caller has
\* CrossDeviceMove; the source exists.
C24_CrossDevice ==
    \E p \in Procs :
        /\ pc[p] = "ret" /\ call[p].op = "trash"
        /\ loc[p].error = "EXDEV"
        /\ result[p].kind = "CrossDeviceMove"
        /\ SourceOf(p) \in DOMAIN fs

\* ------------------------------------------------------------------------
\* Properties of the mount point of a path
\* ------------------------------------------------------------------------

\* The mount points of the list the path lies under, component by component.
MountsAbove(path, mounts) ==
    {m \in mounts :
        Len(m) <= Len(path) /\ \A i \in 1..Len(m) : path[i] = m[i]}

\* The longest of them (none: <<>>).
LongestAbove(path, mounts) ==
    IF MountsAbove(path, mounts) = {} THEN <<>>
    ELSE CHOOSE m \in MountsAbove(path, mounts) :
             \A m2 \in MountsAbove(path, mounts) : Len(m2) <= Len(m)

\* C25: the mount point get_target_trash assigns to a path is the longest
\* entry of the mount list that is a prefix of it component by component: a
\* trash of a top directory is the one of the longest mount point above the
\* target, and a target whose longest mount point is not the one of the home
\* trash (a target under an inner mount, the home trash under the outer
\* one) is never given the Home trash.
C25_LongestPrefix ==
    \A p \in Procs :
        (Resolved(p) /\ result[p].kind = "Ok") =>
            LET m == LongestAbove(TargetOf(p), MountsOf(p))
                h == LongestAbove(get_local_trash_path, MountsOf(p))
            IN  /\ m # <<>>
                /\ result[p].trash.trash_type = "Home" <=> m = h
                /\ result[p].trash.trash_type # "Home" =>
                       result[p].trash.root_path
                           \in {Join(m, <<SharedTrashName, Digits(Uid)>>),
                                Join(m, <<SharedTrashName \o <<45>> \o Digits(Uid)>>)}

\* With "/" and "/m" mounted and the home trash under "/" only, a target
\* under "/m" has been given a trash of "/m".
C25_InnerMount ==
    \E p \in Procs :
        /\ Resolved(p)
        /\ result[p].kind = "Ok"
        /\ {<<RootDir>>, MountM} \subseteq MountsOf(p)
        /\ DataDir \notin MountsOf(p)
        /\ LongestAbove(TargetOf(p), MountsOf(p)) = MountM
        /\ LongestAbove(get_local_trash_path, MountsOf(p)) = <<RootDir>>
        /\ result[p].trash.trash_type # "Home"
        /\ PathStartsWith(result[p].trash.root_path, MountM)

\* ------------------------------------------------------------------------
\* Properties of the candidates of the scan
\* ------------------------------------------------------------------------

\* C26: every TrashEntry the scan returns has both halves on disk at the
\* time of the scan: its record info/<name>.trashinfo is there and complete
\* and its item files/<name> exists; a record whose item is absent yields no
\* candidate.
C26_BothHalvesPresent ==
    \A p \in Procs :
        (pc[p] = "scanned" /\ result[p].kind = "Ok") =>
            \A e \in Returned(p) :
                /\ e \in ValidCandidates(fs, p)
                /\ e.trashed_path = TrashedOf(e.info_path)
                /\ e.trashed_path \in DOMAIN fs

\* ------------------------------------------------------------------------
\* Properties of the record
\* ------------------------------------------------------------------------

\* The text of the record under test.
RecordText == fs[RecordInfoFile].content

\* C27: the text build_trash_info_content(p, d) builds is exactly three
\* lines, the header, the Path= line and the DeletionDate= line; and the
\* scan of it, the lines in any order, yields one entry whose original path
\* is p and whose deletion date is d.
C27_RecordRoundTrip ==
    \A p \in Procs :
        /\ pc[p] = "built" =>
               /\ Occurrences(RecordText, 10) = 3
               /\ RecordText[Len(RecordText)] = 10
               /\ LET lines == SplitOn(SubSeq(RecordText, 1, Len(RecordText) - 1), 10)
                  IN  /\ lines[1] = TRASH_INFO_HEADER
                      /\ StartsWithStr(lines[2], TRASH_INFO_PATH_KEY \o <<61>>)
                      /\ lines[3] = TRASH_INFO_DATE_KEY \o <<61>> \o call[p].date
        /\ pc[p] = "scanned" =>
               /\ Len(result[p].entries) = 1
               /\ result[p].entries[1].original_path = call[p].source_path
               /\ result[p].entries[1].deletion_date = call[p].date

\* ------------------------------------------------------------------------
\* Properties of handle_empty_trash
\* ------------------------------------------------------------------------

\* files/ and info/ of the trash directory have no entry.
AlreadyEmpty(f, trash_dir) ==
    /\ IsEmptyDirectory(f, Join(trash_dir, <<TRASH_FILES_DIR_NAME>>))
    /\ IsEmptyDirectory(f, Join(trash_dir, <<TRASH_INFO_DIR_NAME>>))

\* The loop went on to the directory after the one of the last turn, or
\* returned Ok after the last of the list.
WentOn(p) ==
    \/ pc[p] = "looping" /\ call[p].trash_dirs[loc[p].index] # loc[p].dir
    \/ /\ pc[p] = "handled" /\ result[p].kind = "Ok"
       /\ loc[p].dir = call[p].trash_dirs[Len(call[p].trash_dirs)]

\* C28: a turn of handle_empty_trash changes the file system only below the
\* trash directory it is about, and only when that directory was not empty
\* and emptying was forced (no_confirm) or the confirmation returned yes; a
\* directory that was empty, or whose confirmation returned no, is left
\* unchanged and the loop goes on to the next directory.
C28_OnlyWhenAgreed ==
    \A p \in Procs :
        pc[p] \in {"looping", "handled"} =>
            /\ fs # fs0[p] =>
                   /\ ~AlreadyEmpty(fs0[p], loc[p].dir)
                   /\ call[p].no_confirm \/ loc[p].answer = "yes"
                   /\ \A q \in DOMAIN fs \cup DOMAIN fs0[p] :
                          ~PathStartsWith(q, loc[p].dir) =>
                              q \in DOMAIN fs /\ q \in DOMAIN fs0[p] /\ fs[q] = fs0[p][q]
            /\ AlreadyEmpty(fs0[p], loc[p].dir) => fs = fs0[p] /\ WentOn(p)
            /\ loc[p].answer = "no" => fs = fs0[p] /\ WentOn(p)

\* The first directory was declined and left as it was, the second agreed to
\* and emptied.
C28_DeclinedThenEmptied ==
    \E p \in Procs :
        /\ pc[p] = "handled" /\ result[p].kind = "Ok"
        /\ ~call[p].no_confirm /\ loc[p].answer = "yes"
        /\ HasChildren(fs, Join(call[p].trash_dirs[1], <<TRASH_FILES_DIR_NAME>>))
        /\ fs # fs0[p]
        /\ AlreadyEmpty(fs, loc[p].dir)

\* ------------------------------------------------------------------------
\* Properties of handle_move_to_trash
\* ------------------------------------------------------------------------

\* The item an attempt left in the trash is still there, with its record.
StaysTrashed(t) ==
    LET info_file == determine_info_file_path(t.dest_path, info_path(HomeTrash))
    IN  /\ t.dest_path \in DOMAIN fs
        /\ fs[t.dest_path].id = t.id
        /\ info_file \in DOMAIN fs
        /\ fs[info_file].content = t.record

\* The loop, once entered, tries every file of the list once, in order,
\* whatever the attempts end with, and the command returns Ok.
C29_EveryFileOnce ==
    \A p \in Procs :
        (pc[p] = "handled" /\ call[p].op = "handle_trash" /\ loc[p].attempts # <<>>) =>
            /\ result[p].kind = "Ok"
            /\ loc[p].attempts = [i \in 1..Len(call[p].files) |-> i]
            /\ Len(loc[p].outcomes) = Len(call[p].files)

\* C29: in handle_move_to_trash a failure for one file ends the attempt on
\* that file only: every file of the list is tried once, the command
\* returns Ok, and the items trashed by the earlier attempts stay in the
\* trash with their records.
C29_FailureIsLocal ==
    /\ C29_EveryFileOnce
    /\ \A p \in Procs :
           call[p].op = "handle_trash" => \A t \in loc[p].trashed : StaysTrashed(t)

\* ------------------------------------------------------------------------
\* Properties of the pairing of items and records
\* ------------------------------------------------------------------------

\* The entries of files/ of the home trash.
TrashedItems(f) == {q \in DOMAIN f : Len(q) > 1 /\ Parent(q) = files_path(HomeTrash)}

\* C30: in every state of every sequence of trash_item, restore_item and
\* empty_single_trash_dir by one process, the executions that fail
\* included, every entry of files/ has its record info/<name>.trashinfo.
C30_EveryItemHasRecord ==
    \A q \in TrashedItems(fs) :
        determine_info_file_path(q, info_path(HomeTrash)) \in DOMAIN fs

\* ------------------------------------------------------------------------
\* Properties of the Path of the record
\* ------------------------------------------------------------------------

\* The original path the record of the call of process p decodes to.
RecordedPath(p) ==
    PathFromString(trash_spec_url_decode(
        FirstCapture(TRASH_INFO_PATH_KEY, Lines(fs[InfoOf(p)].content)).value).value)

\* C31: after a successful trash_item the Path of the record decodes to the
\* absolute path the item was moved from, for every kind of source, a
\* symbolic link included (the path of the link, not of its target).
C31_PathOfSource ==
    \A p \in Procs :
        (call[p].op = "trash" /\ pc[p] = "ret" /\ result[p].kind = "Ok") =>
            RecordedPath(p) = SourceOf(p)

\* ------------------------------------------------------------------------
\* Properties of the records that were there before
\* ------------------------------------------------------------------------

\* C32: in every state of a trash_item call, every info record that existed
\* when it was called is still there with its content: writing the new
\* record replaces none, and the cleanup after a failed move removes none.
C32_OldRecordsKept ==
    \A p \in Procs :
        call[p].op = "trash" =>
            \A q \in DOMAIN fs0[p] :
                (Len(q) > 1 /\ Parent(q) = info_path(HomeTrash)) =>
                    q \in DOMAIN fs /\ fs[q] = fs0[p][q]

\* ------------------------------------------------------------------------
\* Properties of a restore_item that fails
\* ------------------------------------------------------------------------

\* C33: a restore_item call that returns an error (RestoreCollision,
\* TrashedItemNotFound or Io) leaves the file system exactly as it was when
\* it was called: no directory created, the trashed item and its record
\* unchanged.
C33_ErrorChangesNothing ==
    \A p \in Procs :
        (call[p].op = "restore" /\ pc[p] = "ret" /\ result[p].kind # "Ok") =>
            fs = fs0[p]

\* ------------------------------------------------------------------------
\* Properties of discovery
\* ------------------------------------------------------------------------

\* C34: an item trashed where get_target_trash said is found again: the root
\* of its trash is among the directories find_all_trash_dirs returns for the
\* same mount table, and the scan holds an entry for the item.
C34_TrashedIsDiscoverable ==
    \A p \in Procs :
        (pc[p] = "scanned" /\ call[p].op = "discover") =>
            /\ \E i \in 1..Len(result[p].dirs) : result[p].dirs[i] = loc[p].trash.root_path
            /\ \E i \in 1..Len(result[p].entries) :
                  result[p].entries[i].trashed_path = loc[p].dest_path

\* C35: find_all_trash_dirs returns each trash root at most once, and so the
\* scan holds at most one entry for each info record, whatever the mount
\* table, one that lists a mount point on several lines included.
C35_EachRootOnce ==
    \A p \in Procs :
        (pc[p] = "scanned" /\ call[p].op = "discover") =>
            /\ \A i, j \in 1..Len(result[p].dirs) :
                  result[p].dirs[i] = result[p].dirs[j] => i = j
            /\ \A i, j \in 1..Len(result[p].entries) :
                  result[p].entries[i].trashed_path = result[p].entries[j].trashed_path
                      => i = j

\* ------------------------------------------------------------------------
\* Properties of the confirmation at the end of the input
\* ------------------------------------------------------------------------

\* C36: without the force flag a trash directory is emptied only after the
\* reader supplied a line that is empty, "y" or "yes": every line the
\* confirmation read was a line of the input; when the input ends before a
\* valid answer the confirmation does not return yes and nothing is emptied.
C36_OnlyOnSuppliedLine ==
    \A p \in Procs :
        (pc[p] \in {"looping", "handled"} /\ call[p].op = "handle_empty"
         /\ ~call[p].no_confirm) =>
            /\ loc[p].answer = "yes" => loc[p].read <= Len(call[p].input)
            /\ fs # fs0[p] => loc[p].read <= Len(call[p].input)

\* ------------------------------------------------------------------------
\* Properties of restore_item beside another process
\* ------------------------------------------------------------------------

\* The item of the identity is somewhere in the file system.
Survives(id) == \E q \in DOMAIN fs : fs[q].id = id

\* C38: restore_item never overwrites an item at the original path, one that
\* another process creates while the restore runs included: whatever the
\* interleaving, the restore fails or the item created beside it survives;
\* an item that was there from the start survives too.
C38_NeverOverwrites ==
    \A p \in Procs :
        (call[p].op = "restore" /\ pc[p] = "ret") =>
            /\ (\E q \in DOMAIN fs0[p] : fs0[p][q].id = 3) => Survives(3)
            /\ nextId = 3 => (result[p].kind # "Ok" \/ Survives(2))

\* ------------------------------------------------------------------------
\* Properties of handle_interactive_restore
\* ------------------------------------------------------------------------

\* C37: of the selected entries of one original path, one session restores
\* the first one processed only: an entry that comes after a restored one of
\* its original path fails with RestoreCollision and changes nothing (it
\* stays in files/, its record is intact, the restored item is not
\* overwritten).
C37_FirstOfAPathOnly ==
    \A p \in Procs :
        (call[p].op = "interactive" /\ pc[p] = "ret") =>
            \A j \in 1..Len(loc[p].outcomes) :
                (/\ loc[p].outcomes[j] = "Ok"
                 /\ loc[p].selected[j].original_path = call[p].entry.original_path) =>
                    /\ result[p].kind = "RestoreCollision"
                    /\ fs = fs0[p]

\* C39: when the selection is aborted or returns no item, nothing is moved
\* or deleted and the result is Ok; when items are selected, each is
\* attempted once, in order, whatever the earlier attempts returned, and the
\* command returns the error Ignorable exactly when one of them failed.
C39_EachSelectedOnce ==
    \A p \in Procs :
        call[p].op = "interactive" =>
            /\ loc[p].attempts = [i \in 1..(loc[p].index - 1) |-> i]
            /\ pc[p] = "handled" =>
                  /\ loc[p].skim \in {"aborted", "empty"} =>
                         /\ fs = loc[p].before
                         /\ result[p].kind = "Ok"
                         /\ loc[p].attempts = <<>>
                  /\ loc[p].skim = "selected" =>
                         /\ Len(loc[p].attempts) = Len(loc[p].selected)
                         /\ Len(loc[p].outcomes) = Len(loc[p].selected)
                         /\ result[p].kind \in {"Ok", "Ignorable"}
                         /\ result[p].kind = "Ignorable"
                                <=> \E i \in 1..Len(loc[p].outcomes) :
                                        loc[p].outcomes[i] # "Ok"

\* Three entries were selected; the first failed, the second was restored,
\* the third failed, and the command returned Ignorable.
C39_FailedThenRestored ==
    \E p \in Procs :
        /\ call[p].op = "interactive" /\ pc[p] = "handled"
        /\ Len(loc[p].selected) = 3
        /\ loc[p].outcomes[1] # "Ok"
        /\ loc[p].outcomes[2] = "Ok"
        /\ loc[p].outcomes[3] # "Ok"
        /\ result[p].kind = "Ignorable"
        /\ fs # loc[p].before

====
